---- MODULE Spec2Model ----
(***************************************************************************)
(* Model of the argumentation-mining extractors                            *)
(*   src/src/argumentation_mining/pipelines/direct_extraction              *)
(*   src/src/argumentation_mining/pipelines/socratic_extraction            *)
(*   src/src/argumentation_mining/utils/openai_calls.py                    *)
(*   src/src/argumentation_mining/main.py (run_pipeline)                   *)
(*                                                                         *)
(* A Python str is a sequence of tokens.  A token is one character         *)
(* (" ", "\n", ".", "-", ":", a digit) or one word: a maximal run of       *)
(* characters holding no whitespace, ".", "-" or ":" and not starting      *)
(* with a digit.  Words carry two numbers naming what they are about, so   *)
(* that the origin of every extracted item can be followed.                *)
(***************************************************************************)
EXTENDS Integers, Sequences, FiniteSets, TLC

\* ------------------------------------------------------------------ bounds

\* The largest number of input articles of one run.
NArticles == 2

\* The number of records given to a request builder or to the combination
\* step when it is called on its own.
MaxRecords == 12

\* The largest number of items in one phase-1 response given to them.
MaxItems == 12

\* ------------------------------------------------------------------ strings

Tok(c) == [ch |-> c, a |-> 0, b |-> 0]
Word(kind, a, b) == [ch |-> kind, a |-> a, b |-> b]

Sp == Tok(" ")
NL == Tok("\n")
Dot == Tok(".")
Dash == Tok("-")
Colon == Tok(":")
D1 == Tok("1")
D2 == Tok("2")

DigitChars == <<"0", "1", "2", "3", "4", "5", "6", "7", "8", "9">>

Whitespace == {" ", "\n"}

Min(x, y) == IF x <= y THEN x ELSE y

\* str.lstrip(chars)
RECURSIVE LStripChars(_, _)
LStripChars(s, chars) ==
    IF s # <<>> /\ s[1].ch \in chars THEN LStripChars(Tail(s), chars) ELSE s

\* str.rstrip(chars)
RECURSIVE RStripChars(_, _)
RStripChars(s, chars) ==
    IF s # <<>> /\ s[Len(s)].ch \in chars
    THEN RStripChars(SubSeq(s, 1, Len(s) - 1), chars)
    ELSE s

\* str.strip()
Strip(s) == RStripChars(LStripChars(s, Whitespace), Whitespace)

\* c in s
Contains(s, c) == \E n \in 1..Len(s) : s[n].ch = c

\* the position of the first c in s, 0 when there is none
RECURSIVE FindFrom(_, _, _)
FindFrom(s, c, n) ==
    IF n > Len(s) THEN 0
    ELSE IF s[n].ch = c THEN n
    ELSE FindFrom(s, c, n + 1)

\* s.split(c, 1)[-1]
AfterFirst(s, c) ==
    LET n == FindFrom(s, c, 1)
    IN  IF n = 0 THEN s ELSE SubSeq(s, n + 1, Len(s))

\* s.split("\n")
RECURSIVE SplitLines(_)
SplitLines(s) ==
    LET n == FindFrom(s, "\n", 1)
    IN  IF n = 0 THEN <<s>>
        ELSE <<SubSeq(s, 1, n - 1)>> \o SplitLines(SubSeq(s, n + 1, Len(s)))

\* s.startswith(<c1 c2>) for a two-token prefix
StartsWith2(s, c1, c2) == Len(s) >= 2 /\ s[1].ch = c1 /\ s[2].ch = c2

IsDigit(t) == \E n \in 1..Len(DigitChars) : DigitChars[n] = t.ch

\* str(n) as format() writes a non-negative integer
RECURSIVE Str(_)
Str(n) ==
    IF n < 10 THEN <<DigitChars[n + 1]>>
    ELSE Str(n \div 10) \o <<DigitChars[(n % 10) + 1]>>

\* ------------------------------------------------------------------ parsers

\* The item one line of a list yields: <<>> when it yields none.
ListItemOf(raw_line) ==
    LET cleaned_line == Strip(raw_line)
    IN  IF cleaned_line = <<>> THEN <<>>
        ELSE IF IsDigit(cleaned_line[1]) \/ cleaned_line[1].ch = "-"
        THEN LET item == IF Contains(cleaned_line, ".")
                         THEN Strip(AfterFirst(cleaned_line, "."))
                         ELSE cleaned_line
             IN  Strip(LStripChars(item, {"-", " "}))
        ELSE <<>>

RECURSIVE ItemsOfLines(_)
ItemsOfLines(lines) ==
    IF lines = <<>> THEN <<>>
    ELSE LET item == ListItemOf(Head(lines))
         IN  (IF item # <<>> THEN <<item>> ELSE <<>>) \o ItemsOfLines(Tail(lines))

\* DirectArgumentExtractor._parse_list_items
ParseListItems(text) == ItemsOfLines(SplitLines(text))

\* questions[:10]
MaxQuestions == 10

\* ParseQuestions returning every question it finds
ParseQuestions_NoCap(text) == ItemsOfLines(SplitLines(text))

\* QAArgumentExtractor._parse_questions
ParseQuestions(text) ==
    LET questions == ItemsOfLines(SplitLines(text))
    IN  SubSeq(questions, 1, Min(MaxQuestions, Len(questions)))

\* QAArgumentExtractor._parse_argument: the loop over the lines, carrying
\* (claim, premises, current_section).
RECURSIVE ParseArgumentLines(_, _, _, _)
ParseArgumentLines(lines, claim, premises, current_section) ==
    IF lines = <<>> THEN [claim |-> claim, premises |-> premises]
    ELSE LET cleaned_line == Strip(Head(lines))
             rest == Tail(lines)
         IN  IF StartsWith2(cleaned_line, "Claim", ":")
             THEN ParseArgumentLines(rest, Strip(AfterFirst(cleaned_line, ":")),
                                     premises, "claim")
             ELSE IF StartsWith2(cleaned_line, "Premises", ":")
             THEN ParseArgumentLines(rest, claim, premises, "premises")
             ELSE IF current_section = "premises" /\ cleaned_line # <<>>
             THEN LET premise == ListItemOf(cleaned_line)
                  IN  ParseArgumentLines(rest, claim,
                          IF premise # <<>> THEN Append(premises, premise)
                          ELSE premises,
                          current_section)
             ELSE ParseArgumentLines(rest, claim, premises, current_section)

ParseArgument(text) == ParseArgumentLines(SplitLines(text), <<>>, <<>>, "none")


\* ------------------------------------------------------------------ values

\* Optional[T]: None is <<>>, a value v is <<v>>.
None == <<>>
Some(v) == <<v>>

\* A Python dict: a function on its set of keys.
EmptyMap == <<>>
MapPut(m, k, v) == [x \in (DOMAIN m) \cup {k} |-> IF x = k THEN v ELSE m[x]]
\* dict.get(k, default)
MapGet(m, k, default) == IF k \in DOMAIN m THEN m[k] ELSE default

\* f"{tag}_{i}" and f"{tag}_{i}_{j}", as the sequence of their characters
Key1(tag, i) == tag \o <<"_">> \o Str(i)
\* Key2 writing the two indices one after the other
Key2_NoSeparator(tag, i, j) == tag \o <<"_">> \o Str(i) \o Str(j)

Key2(tag, i, j) == tag \o <<"_">> \o Str(i) \o <<"_">> \o Str(j)

\* template.format(...): the template's name and the values put into it
Prompt(tpl, text, item, answer) ==
    [tpl |-> tpl, text |-> text, item |-> item, answer |-> answer]

\* build_batch_request (method, url, model and temperature are the same in
\* every request and are left out)
BuildBatchRequest(custom_id, prompt) == [custom_id |-> custom_id, prompt |-> prompt]

\* extract_batch_result: shape "ok" is a record holding
\* response.body.choices[0].message.content as a string, "no_choices" one with
\* no response, body or choices, "null_content" one whose content is null
\* (None.strip() raises AttributeError, which is caught).
ExtractBatchResult(result) ==
    IF result.shape = "ok" THEN Strip(result.content) ELSE <<>>

\* BatchJobStatus.is_complete
TerminalStatuses == {"completed", "failed", "expired", "cancelled"}
\* IsComplete taking only a completed job for a finished one
IsComplete_OnlyCompleted(status) == status = "completed"

\* IsComplete taking every status after validation for a final one
IsComplete_Started(status) == status # "validating"

IsComplete(status) == status \in TerminalStatuses

\* ------------------------------------------------------------------ direct extraction

\* DirectArgumentExtractor._build_conclusions_map
RECURSIVE BuildConclusionsMapFrom(_, _)
BuildConclusionsMapFrom(results, conclusions_map) ==
    IF results = <<>> THEN conclusions_map
    ELSE LET result == Head(results)
             content == ExtractBatchResult(result)
         IN  BuildConclusionsMapFrom(Tail(results),
                 IF content # <<>>
                 THEN MapPut(conclusions_map, result.custom_id, ParseListItems(content))
                 ELSE conclusions_map)

\* BuildConclusionsMap keyed by the position of a record among the records
\* that hold content, instead of by its custom_id
BuildConclusionsMap_ByPosition(phase1_results) ==
    LET kept == SelectSeq(phase1_results, LAMBDA r : ExtractBatchResult(r) # <<>>)
    IN  [key \in {Key1(<<"c">>, x - 1) : x \in 1..Len(kept)} |->
            LET x == CHOOSE y \in 1..Len(kept) : Key1(<<"c">>, y - 1) = key
            IN  ParseListItems(ExtractBatchResult(kept[x]))]

\* BuildConclusionsMap in which the last record under a key decides alone:
\* one without content takes the key out of the map
BuildConclusionsMap_LastRecord(phase1_results) ==
    LET Last(key) == CHOOSE x \in 1..Len(phase1_results) :
                         /\ phase1_results[x].custom_id = key
                         /\ \A y \in (x + 1)..Len(phase1_results) :
                                phase1_results[y].custom_id # key
        kept == {phase1_results[x].custom_id : x \in
                    {y \in 1..Len(phase1_results) :
                        /\ Last(phase1_results[y].custom_id) = y
                        /\ ExtractBatchResult(phase1_results[y]) # <<>>}}
    IN  [key \in kept |-> ParseListItems(ExtractBatchResult(phase1_results[Last(key)]))]

BuildConclusionsMap(phase1_results) == BuildConclusionsMapFrom(phase1_results, EmptyMap)

\* DirectArgumentExtractor._build_premises_map
RECURSIVE BuildPremisesMapFrom(_, _)
BuildPremisesMapFrom(results, premises_map) ==
    IF results = <<>> THEN premises_map
    ELSE LET result == Head(results)
             content == ExtractBatchResult(result)
         IN  BuildPremisesMapFrom(Tail(results),
                 IF content # <<>>
                 THEN MapPut(premises_map, result.custom_id, ParseListItems(content))
                 ELSE premises_map)

\* BuildPremisesMap reading the first record only
BuildPremisesMap_FirstOnly(phase2_results) ==
    BuildPremisesMapFrom(SubSeq(phase2_results, 1, Min(1, Len(phase2_results))),
                         EmptyMap)

BuildPremisesMap(phase2_results) == BuildPremisesMapFrom(phase2_results, EmptyMap)

\* The requests of articles n.. of a list comprehension / loop over
\* enumerate(articles); PerArticle(i, article) is what article i (0-based) adds.
RECURSIVE DirectPhase1From(_, _)
DirectPhase1From(articles, n) ==
    IF n > Len(articles) THEN <<>>
    ELSE (IF articles[n].hasText
          THEN <<BuildBatchRequest(Key1(<<"c">>, n - 1),
                   Prompt("conclusion_extraction", articles[n].text, <<>>, <<>>))>>
          ELSE <<>>) \o DirectPhase1From(articles, n + 1)

\* DirectPhase1Requests numbering the keys by the position among the
\* articles that have the text column
DirectPhase1Requests_Renumbered(articles) ==
    LET kept == SelectSeq(articles, LAMBDA article : article.hasText)
    IN  [x \in 1..Len(kept) |->
            BuildBatchRequest(Key1(<<"c">>, x - 1),
                Prompt("conclusion_extraction", kept[x].text, <<>>, <<>>))]

\* DirectArgumentExtractor._batch_phase1: the request list
DirectPhase1Requests(articles) == DirectPhase1From(articles, 1)

\* DirectPhase2ForArticle counting the conclusions from 1 in its keys
DirectPhase2ForArticle_OneBased(i, text, conclusions) ==
    [j \in 1..Len(conclusions) |->
        BuildBatchRequest(Key2(<<"p">>, i, j),
            Prompt("premise_extraction", text, conclusions[j], <<>>))]

\* The requests _batch_phase2 adds for article i (0-based)
DirectPhase2ForArticle(i, text, conclusions) ==
    [j \in 1..Len(conclusions) |->
        BuildBatchRequest(Key2(<<"p">>, i, j - 1),
            Prompt("premise_extraction", text, conclusions[j], <<>>))]

RECURSIVE DirectPhase2From(_, _, _)
DirectPhase2From(articles, conclusions_map, n) ==
    IF n > Len(articles) THEN <<>>
    ELSE (IF articles[n].hasText
          THEN DirectPhase2ForArticle(n - 1, articles[n].text,
                   MapGet(conclusions_map, Key1(<<"c">>, n - 1), <<>>))
          ELSE <<>>) \o DirectPhase2From(articles, conclusions_map, n + 1)

\* DirectArgumentExtractor._batch_phase2: the request list
DirectPhase2Requests(articles, phase1_results) ==
    DirectPhase2From(articles, BuildConclusionsMap(phase1_results), 1)

\* DirectResultOf with the failure message forgotten
DirectResultOf_NoMessage(i, article, conclusions_map, premises_map, id_column) ==
    LET conclusions == MapGet(conclusions_map, Key1(<<"c">>, i), <<>>)
        arguments_list ==
            [j \in 1..Len(conclusions) |->
                [conclusion |-> conclusions[j],
                 premises |-> MapGet(premises_map, Key2(<<"p">>, i, j - 1), <<>>)]]
    IN  [text |-> IF article.hasText THEN article.text ELSE <<>>,
         article_id |-> IF id_column # None THEN Some(article.id) ELSE None,
         conclusions |-> Some(conclusions),
         arguments |-> Some(arguments_list),
         success |-> Len(arguments_list) > 0,
         error_message |-> None]

\* DirectResultOf leaving out the conclusions that have no premises entry
DirectResultOf_NeedsPremises(i, article, conclusions_map, premises_map, id_column) ==
    LET conclusions == MapGet(conclusions_map, Key1(<<"c">>, i), <<>>)
        withPremises == SelectSeq([j \in 1..Len(conclusions) |-> j],
                            LAMBDA j : Key2(<<"p">>, i, j - 1) \in DOMAIN premises_map)
        arguments_list ==
            [x \in 1..Len(withPremises) |->
                [conclusion |-> conclusions[withPremises[x]],
                 premises |-> premises_map[Key2(<<"p">>, i, withPremises[x] - 1)]]]
        success == Len(arguments_list) > 0
    IN  [text |-> IF article.hasText THEN article.text ELSE <<>>,
         article_id |-> IF id_column # None THEN Some(article.id) ELSE None,
         conclusions |-> Some(conclusions),
         arguments |-> Some(arguments_list),
         success |-> success,
         error_message |-> IF ~success THEN Some("No arguments extracted") ELSE None]

\* One DirectExtractionResult of _combine_results
DirectResultOf(i, article, conclusions_map, premises_map, id_column) ==
    LET conclusions == MapGet(conclusions_map, Key1(<<"c">>, i), <<>>)
        arguments_list ==
            [j \in 1..Len(conclusions) |->
                [conclusion |-> conclusions[j],
                 premises |-> MapGet(premises_map, Key2(<<"p">>, i, j - 1), <<>>)]]
        success == Len(arguments_list) > 0
    IN  [text |-> IF article.hasText THEN article.text ELSE <<>>,
         article_id |-> IF id_column # None THEN Some(article.id) ELSE None,
         conclusions |-> Some(conclusions),
         arguments |-> Some(arguments_list),
         success |-> success,
         error_message |-> IF ~success THEN Some("No arguments extracted") ELSE None]

\* DirectCombineResults skipping, as the request builders do, the articles
\* that lack the text column
DirectCombineResults_SkipNoText(articles, phase1_results, phase2_results, id_column) ==
    LET conclusions_map == BuildConclusionsMap(phase1_results)
        premises_map == BuildPremisesMap(phase2_results)
        all == [n \in 1..Len(articles) |->
                   [hasText |-> articles[n].hasText,
                    r |-> DirectResultOf(n - 1, articles[n], conclusions_map,
                                         premises_map, id_column)]]
        kept == SelectSeq(all, LAMBDA x : x.hasText)
    IN  [n \in 1..Len(kept) |-> kept[n].r]

\* DirectArgumentExtractor._combine_results
DirectCombineResults(articles, phase1_results, phase2_results, id_column) ==
    LET conclusions_map == BuildConclusionsMap(phase1_results)
        premises_map == BuildPremisesMap(phase2_results)
    IN  [n \in 1..Len(articles) |->
            DirectResultOf(n - 1, articles[n], conclusions_map, premises_map, id_column)]


\* ------------------------------------------------------------------ question-answer extraction

\* dict.get(k): None when the key is missing
MapLookup(m, k) == IF k \in DOMAIN m THEN Some(m[k]) ELSE None

\* QAArgumentExtractor._build_questions_map
RECURSIVE BuildQuestionsMapFrom(_, _)
BuildQuestionsMapFrom(results, questions_map) ==
    IF results = <<>> THEN questions_map
    ELSE LET result == Head(results)
             content == ExtractBatchResult(result)
         IN  BuildQuestionsMapFrom(Tail(results),
                 IF content # <<>>
                 THEN MapPut(questions_map, result.custom_id, ParseQuestions(content))
                 ELSE questions_map)

\* BuildQuestionsMap keyed by the position of a record among the records
\* that hold content, instead of by its custom_id
BuildQuestionsMap_ByPosition(phase1_results) ==
    LET kept == SelectSeq(phase1_results, LAMBDA r : ExtractBatchResult(r) # <<>>)
    IN  [key \in {Key1(<<"q">>, x - 1) : x \in 1..Len(kept)} |->
            LET x == CHOOSE y \in 1..Len(kept) : Key1(<<"q">>, y - 1) = key
            IN  ParseQuestions(ExtractBatchResult(kept[x]))]

BuildQuestionsMap(phase1_results) == BuildQuestionsMapFrom(phase1_results, EmptyMap)

\* QAArgumentExtractor._build_answers_map
RECURSIVE BuildAnswersMapFrom(_, _)
BuildAnswersMapFrom(results, answers_map) ==
    IF results = <<>> THEN answers_map
    ELSE LET result == Head(results)
             content == ExtractBatchResult(result)
         IN  BuildAnswersMapFrom(Tail(results),
                 IF content # <<>>
                 THEN MapPut(answers_map, result.custom_id, content)
                 ELSE answers_map)

BuildAnswersMap(phase2_results) == BuildAnswersMapFrom(phase2_results, EmptyMap)

\* QAArgumentExtractor._build_arguments_map
RECURSIVE BuildArgumentsMapFrom(_, _)
BuildArgumentsMapFrom(results, arguments_map) ==
    IF results = <<>> THEN arguments_map
    ELSE LET result == Head(results)
             content == ExtractBatchResult(result)
         IN  BuildArgumentsMapFrom(Tail(results),
                 IF content # <<>>
                 THEN MapPut(arguments_map, result.custom_id, ParseArgument(content))
                 ELSE arguments_map)

BuildArgumentsMap(phase3_results) == BuildArgumentsMapFrom(phase3_results, EmptyMap)

RECURSIVE QAPhase1From(_, _)
QAPhase1From(articles, n) ==
    IF n > Len(articles) THEN <<>>
    ELSE (IF articles[n].hasText
          THEN <<BuildBatchRequest(Key1(<<"q">>, n - 1),
                   Prompt("question_extraction", articles[n].text, <<>>, <<>>))>>
          ELSE <<>>) \o QAPhase1From(articles, n + 1)

\* QAArgumentExtractor._batch_phase1: the request list
QAPhase1Requests(articles) == QAPhase1From(articles, 1)

QAPhase2ForArticle(i, text, questions) ==
    [j \in 1..Len(questions) |->
        BuildBatchRequest(Key2(<<"q", "a">>, i, j - 1),
            Prompt("question_answering", text, questions[j], <<>>))]

RECURSIVE QAPhase2From(_, _, _)
QAPhase2From(articles, questions_map, n) ==
    IF n > Len(articles) THEN <<>>
    ELSE (IF articles[n].hasText
          THEN QAPhase2ForArticle(n - 1, articles[n].text,
                   MapGet(questions_map, Key1(<<"q">>, n - 1), <<>>))
          ELSE <<>>) \o QAPhase2From(articles, questions_map, n + 1)

\* QAArgumentExtractor._batch_phase2: the request list
QAPhase2Requests(articles, phase1_results) ==
    QAPhase2From(articles, BuildQuestionsMap(phase1_results), 1)

\* QAPhase3ForArticle asking for an argument on every question, answered or not
QAPhase3ForArticle_EveryQuestion(i, questions, answers_map, j) ==
    [x \in 1..(Len(questions) - j + 1) |->
        BuildBatchRequest(Key2(<<"a", "r", "g">>, i, j + x - 2),
            Prompt("argument_construction", <<>>, questions[j + x - 1],
                   MapGet(answers_map, Key2(<<"q", "a">>, i, j + x - 2), <<>>)))]

\* The inner loop of _batch_phase3 over enumerate(questions), from question j on
RECURSIVE QAPhase3ForArticle(_, _, _, _)
QAPhase3ForArticle(i, questions, answers_map, j) ==
    IF j > Len(questions) THEN <<>>
    ELSE LET answer == MapLookup(answers_map, Key2(<<"q", "a">>, i, j - 1))
         IN  (IF answer # None /\ answer[1] # <<>>
              THEN <<BuildBatchRequest(Key2(<<"a", "r", "g">>, i, j - 1),
                       Prompt("argument_construction", <<>>, questions[j], answer[1]))>>
              ELSE <<>>) \o QAPhase3ForArticle(i, questions, answers_map, j + 1)

RECURSIVE QAPhase3From(_, _, _, _)
QAPhase3From(articles, questions_map, answers_map, n) ==
    IF n > Len(articles) THEN <<>>
    ELSE (IF articles[n].hasText
          THEN QAPhase3ForArticle(n - 1,
                   MapGet(questions_map, Key1(<<"q">>, n - 1), <<>>), answers_map, 1)
          ELSE <<>>) \o QAPhase3From(articles, questions_map, answers_map, n + 1)

\* QAArgumentExtractor._batch_phase3: the request list
QAPhase3Requests(articles, phase1_results, phase2_results) ==
    QAPhase3From(articles, BuildQuestionsMap(phase1_results),
                 BuildAnswersMap(phase2_results), 1)

\* QAArgumentsList leaving the loop at the first question without an answer
\* or an argument, instead of going on to the next question
QAArgumentsList_StopAtGap(i, questions, answers_map, arguments_map, j) ==
    LET Has(x) ==
            /\ MapGet(answers_map, Key2(<<"q", "a">>, i, x - 1), <<>>) # <<>>
            /\ Key2(<<"a", "r", "g">>, i, x - 1) \in DOMAIN arguments_map
        gap == CHOOSE g \in j..(Len(questions) + 1) :
                   /\ g = Len(questions) + 1 \/ ~Has(g)
                   /\ \A x \in j..(g - 1) : Has(x)
    IN  [x \in 1..(gap - j) |->
            LET arg == arguments_map[Key2(<<"a", "r", "g">>, i, j + x - 2)]
            IN  [question |-> questions[j + x - 1],
                 answer |-> answers_map[Key2(<<"q", "a">>, i, j + x - 2)],
                 claim |-> arg.claim,
                 premises |-> arg.premises]]

\* QAArgumentsList taking a parsed argument with no claim and no premises
\* for a missing one
QAArgumentsList_NeedsClaim(i, questions, answers_map, arguments_map, j) ==
    LET Has(x) ==
            /\ x >= j
            /\ MapGet(answers_map, Key2(<<"q", "a">>, i, x - 1), <<>>) # <<>>
            /\ Key2(<<"a", "r", "g">>, i, x - 1) \in DOMAIN arguments_map
            /\ LET arg == arguments_map[Key2(<<"a", "r", "g">>, i, x - 1)]
               IN  arg.claim # <<>> \/ arg.premises # <<>>
        kept == SelectSeq([x \in 1..Len(questions) |-> x], Has)
    IN  [a \in 1..Len(kept) |->
            LET arg == arguments_map[Key2(<<"a", "r", "g">>, i, kept[a] - 1)]
            IN  [question |-> questions[kept[a]],
                 answer |-> answers_map[Key2(<<"q", "a">>, i, kept[a] - 1)],
                 claim |-> arg.claim,
                 premises |-> arg.premises]]

\* The inner loop of QAArgumentExtractor._combine_results, from question j on
RECURSIVE QAArgumentsList(_, _, _, _, _)
QAArgumentsList(i, questions, answers_map, arguments_map, j) ==
    IF j > Len(questions) THEN <<>>
    ELSE LET answer == MapLookup(answers_map, Key2(<<"q", "a">>, i, j - 1))
             arg == MapLookup(arguments_map, Key2(<<"a", "r", "g">>, i, j - 1))
         IN  (IF answer # None /\ answer[1] # <<>> /\ arg # None
              THEN <<[question |-> questions[j],
                      answer |-> answer[1],
                      claim |-> arg[1].claim,
                      premises |-> arg[1].premises]>>
              ELSE <<>>)
             \o QAArgumentsList(i, questions, answers_map, arguments_map, j + 1)

\* QAResultOf returning no questions for an article it found no argument for
QAResultOf_DropsQuestions(i, article, questions_map, answers_map, arguments_map, id_column) ==
    LET questions == MapGet(questions_map, Key1(<<"q">>, i), <<>>)
        arguments_list == QAArgumentsList(i, questions, answers_map, arguments_map, 1)
        success == Len(arguments_list) > 0
    IN  [text |-> IF article.hasText THEN article.text ELSE <<>>,
         article_id |-> IF id_column # None THEN Some(article.id) ELSE None,
         questions |-> IF success THEN Some(questions) ELSE Some(<<>>),
         arguments |-> Some(arguments_list),
         success |-> success,
         error_message |-> IF ~success THEN Some("No arguments extracted") ELSE None]

\* One QAResult of _combine_results
QAResultOf(i, article, questions_map, answers_map, arguments_map, id_column) ==
    LET questions == MapGet(questions_map, Key1(<<"q">>, i), <<>>)
        arguments_list == QAArgumentsList(i, questions, answers_map, arguments_map, 1)
        success == Len(arguments_list) > 0
    IN  [text |-> IF article.hasText THEN article.text ELSE <<>>,
         article_id |-> IF id_column # None THEN Some(article.id) ELSE None,
         questions |-> Some(questions),
         arguments |-> Some(arguments_list),
         success |-> success,
         error_message |-> IF ~success THEN Some("No arguments extracted") ELSE None]

\* QACombineResults skipping, as the request builders do, the articles that
\* lack the text column
QACombineResults_SkipNoText(articles, phase1_results, phase2_results, phase3_results, id_column) ==
    LET questions_map == BuildQuestionsMap(phase1_results)
        answers_map == BuildAnswersMap(phase2_results)
        arguments_map == BuildArgumentsMap(phase3_results)
        all == [n \in 1..Len(articles) |->
                   [hasText |-> articles[n].hasText,
                    r |-> QAResultOf(n - 1, articles[n], questions_map, answers_map,
                                     arguments_map, id_column)]]
        kept == SelectSeq(all, LAMBDA x : x.hasText)
    IN  [n \in 1..Len(kept) |-> kept[n].r]

\* QAArgumentExtractor._combine_results
QACombineResults(articles, phase1_results, phase2_results, phase3_results, id_column) ==
    LET questions_map == BuildQuestionsMap(phase1_results)
        answers_map == BuildAnswersMap(phase2_results)
        arguments_map == BuildArgumentsMap(phase3_results)
    IN  [n \in 1..Len(articles) |->
            QAResultOf(n - 1, articles[n], questions_map, answers_map, arguments_map,
                       id_column)]


\* ------------------------------------------------------------------ the remote service

\* What the model may answer to a prompt.  "three", "two" and "one" are
\* lists of that many items, "prose" is text no parser finds anything in,
\* "blank" is whitespace only, "good" is an answer of the shape the prompt
\* asks for.  Only a long text yields a list of three.
CompletionKinds(prompt) ==
    CASE prompt.tpl \in {"conclusion_extraction", "question_extraction"} ->
             {"two", "one", "prose", "blank"}
                 \cup (IF prompt.text[1].ch = "longtext" THEN {"three"} ELSE {})
      [] prompt.tpl = "premise_extraction" -> {"good", "prose"}
      [] prompt.tpl = "question_answering" -> {"good"}
      [] prompt.tpl = "argument_construction" -> {"good", "prose"}

Prose == <<Word("prose", 0, 0), Sp, Word("prose", 0, 0)>>

\* The text of a completion of the given kind for a prompt.
Completion(prompt, kind) ==
    CASE kind = "prose" -> Prose
      [] kind = "blank" -> <<Sp, NL>>
      [] kind = "two" ->
             LET t == prompt.text[1].a
             IN  <<D1, Dot, Sp, Word("item", t, 1), NL,
                   Dash, Sp, Word("item", t, 2), NL>>
      [] kind = "one" ->
             LET t == prompt.text[1].a
             IN  <<Sp, D1, Dot, Sp, Word("item", t, 1)>>
      [] kind = "three" ->
             LET t == prompt.text[1].a
             IN  <<D1, Dot, Sp, Word("item", t, 1), NL, NL,
                   D2, Dot, Sp, Word("item", t, 2), NL,
                   Dash, Word("item", t, 3)>>
      [] kind = "good" /\ prompt.tpl = "premise_extraction" ->
             LET it == prompt.item[1]
             IN  <<Dash, Sp, Word("premise", it.a, it.b)>>
      [] kind = "good" /\ prompt.tpl = "question_answering" ->
             LET it == prompt.item[1]
             IN  <<Sp, Word("answer", it.a, it.b), NL>>
      [] kind = "good" /\ prompt.tpl = "argument_construction" ->
             LET it == prompt.item[1]
             IN  <<Word("Claim", 0, 0), Colon, Sp, Word("claim", it.a, it.b), NL,
                   Word("Premises", 0, 0), Colon, NL,
                   D1, Dot, Sp, Word("premise", it.a, it.b)>>

\* What a job may do with one request: answer it, return a record without
\* choices, or leave it out of the output file.  (For the last phase a
\* record without choices and a missing record are told apart by nothing
\* downstream; only the missing record is kept.)
RequestOutcomes(prompt) ==
    CompletionKinds(prompt) \cup {"omit"}
        \cup (IF prompt.tpl = "argument_construction" THEN {} ELSE {"no_choices"})

\* One line of a job's output file.
ResultRecord(request, outcome) ==
    IF outcome = "no_choices"
    THEN [custom_id |-> request.custom_id, shape |-> "no_choices", content |-> <<>>]
    ELSE [custom_id |-> request.custom_id, shape |-> "ok",
          content |-> Completion(request.prompt, outcome)]

RECURSIVE OutputLinesFrom(_, _, _)
OutputLinesFrom(input, outcome, n) ==
    IF n > Len(input) THEN <<>>
    ELSE (IF outcome[n] = "omit" THEN <<>>
          ELSE <<ResultRecord(input[n], outcome[n])>>)
         \o OutputLinesFrom(input, outcome, n + 1)

\* The output file of a job that ran `input`, request n ending as outcome[n]
OutputLines(input, outcome) == OutputLinesFrom(input, outcome, 1)

RECURSIVE JobOutcomesFrom(_, _)
JobOutcomesFrom(input, n) ==
    IF n > Len(input) THEN {<<>>}
    ELSE {<<first>> \o rest : first \in RequestOutcomes(input[n].prompt),
                              rest \in JobOutcomesFrom(input, n + 1)}

\* The outcomes a completed job may have for its input file, one per request
JobOutcomes(input) == JobOutcomesFrom(input, 1)

\* The kind of answer an expiring or cancelled job gave to a request it
\* had served.
ServedKind(tpl) ==
    IF tpl \in {"conclusion_extraction", "question_extraction"} THEN "one" ELSE "good"

\* The outcomes of a job that stopped after serving its first request
PartialOutcome(input) ==
    [n \in 1..Len(input) |->
        IF n = 1 THEN ServedKind(input[n].prompt.tpl) ELSE "omit"]

\* ------------------------------------------------------------------ state

VARIABLES
    mode,            \* run_pipeline's run_batch: "batch" or "single"
    variant,         \* the extractor: "direct" or "qa"
    articles,        \* the input records
    id_column,       \* None or the name of the id column
    pc,              \* where the run is
    phase,           \* the phase process_batch is in (0 before the first)
    requests,        \* per phase, the request list built for it (None: not built)
    files,           \* per phase, the phase file under output_dir (None: not written)
    uploads,         \* the files uploaded to the remote service, by file id
    jobs,            \* the remote jobs, by job id
    job_id,          \* the job _wait_for_batch waits for
    phase_results,   \* phase1_results, phase2_results, phase3_results
    index,           \* run_pipeline's position in the articles (sequential mode)
    result,          \* process_single's result under construction
    arguments_list,  \* the arguments_list of _process_conclusions/_process_questions
    j,               \* the position of that loop in the items (1-based)
    answer,          \* the answer of the current question
    results,         \* the result list
    raised,          \* the exception that left process_batch / run_pipeline (None: none)
    other,           \* a second process_batch call running beside this one
    api_key,         \* the api_key argument of the extractor (None: not given)
    dotenv,          \* OPENAI_API_KEY in the .env file (None: not there)
    environ,         \* OPENAI_API_KEY in os.environ (None: not set)
    client,          \* the extractor's client, by the key it holds (None: not made)
    calls,           \* the calls process_single has made for the current article
    given,           \* the arguments of a function called on its own (None: none)
    value            \* what that function returned (None: not called yet)

inputVars == <<mode, variant, articles, id_column>>
batchVars == <<phase, requests, files, uploads, jobs, job_id, phase_results>>
singleVars == <<index, calls, result, arguments_list, j, answer>>
setupVars == <<api_key, dotenv, environ, client>>
fnVars == <<given, value>>
vars == <<inputVars, setupVars, fnVars, pc, batchVars, singleVars, results, raised, other>>

Phases == 1..3
LastPhase == IF variant = "direct" THEN 2 ELSE 3

\* The k-th input record (1-based): its text column, when it has one, holds
\* the k-th text, and its id column the k-th id.
Article(k, hasText) ==
    [hasText |-> hasText,
     text |-> IF hasText THEN <<Word("text", k, 0)>> ELSE <<>>,
     id |-> <<Word("id", k, 0)>>]

ArticleLists ==
    UNION {{[k \in 1..n |-> Article(k, has[k])] : has \in [1..n -> BOOLEAN]} :
           n \in 0..NArticles}

\* No second call
NoCall ==
    [pc |-> "none", output_dir |-> "own", articles |-> <<>>, phase |-> 0,
     requests |-> [k \in Phases |-> None], files |-> [k \in Phases |-> None],
     uploads |-> <<>>, jobs |-> <<>>, job_id |-> 0,
     phase_results |-> [k \in Phases |-> None], results |-> <<>>]

\* A key the service accepts
TheKey == "sk-key"

\* The extractor was constructed with a key as its argument.
ClientMade ==
    /\ api_key = Some(TheKey)
    /\ dotenv = None
    /\ environ = None
    /\ client = Some(TheKey)

\* The locals of a run and what it leaves behind, before its first step.
InitLocals ==
    /\ phase = 0
    /\ requests = [k \in Phases |-> None]
    /\ files = [k \in Phases |-> None]
    /\ uploads = <<>>
    /\ jobs = <<>>
    /\ job_id = 0
    /\ phase_results = [k \in Phases |-> None]
    /\ index = 0
    /\ calls = <<>>
    /\ result = None
    /\ arguments_list = <<>>
    /\ j = 0
    /\ answer = <<>>
    /\ results = <<>>
    /\ raised = None

\* No function is called on its own.
NotApplied ==
    /\ given = None
    /\ value = None

\* The state of a run before its first step.
InitRun ==
    /\ ClientMade
    /\ NotApplied
    /\ pc = IF mode = "batch" THEN "phase1" ELSE "loop"
    /\ InitLocals

\* run_pipeline passes records that all hold both columns, and names the id
\* column; process_batch called directly takes any records.
Init ==
    /\ mode \in {"batch", "single"}
    /\ variant \in {"direct", "qa"}
    /\ articles \in ArticleLists
    /\ id_column \in {None, Some("article_id")}
    /\ mode = "single" =>
           /\ id_column # None
           /\ \A k \in 1..Len(articles) : articles[k].hasText
    /\ InitRun
    /\ other = NoCall

\* One long article, put through the question-answer extractor's batch path.
LongArticle ==
    [hasText |-> TRUE, text |-> <<Word("longtext", 1, 0)>>, id |-> <<Word("id", 1, 0)>>]

InitLong ==
    /\ mode = "batch"
    /\ variant = "qa"
    /\ articles = <<LongArticle>>
    /\ id_column \in {None, Some("article_id")}
    /\ InitRun
    /\ other = NoCall

\* ------------------------------------------------------------------ process_batch

\* The pc at which phase k starts, and the one after the last phase.
PhaseStart(k) ==
    IF k > LastPhase THEN "combine"
    ELSE IF k = 1 THEN "phase1" ELSE IF k = 2 THEN "phase2" ELSE "phase3"

\* The request list phase k builds from the records given to process_batch
\* and the earlier phases' results pr (pr[1] is phase1_results, pr[2] is
\* phase2_results).
PhaseRequestsOf(records, k, pr) ==
    IF variant = "direct"
    THEN IF k = 1 THEN DirectPhase1Requests(records)
         ELSE DirectPhase2Requests(records, pr[1])
    ELSE IF k = 1 THEN QAPhase1Requests(records)
         ELSE IF k = 2 THEN QAPhase2Requests(records, pr[1])
         ELSE QAPhase3Requests(records, pr[1], pr[2])

PhaseRequestsFrom(k, pr) == PhaseRequestsOf(articles, k, pr)

\* The phase results process_batch holds ([] for a phase it has none of)
Fetched ==
    [k \in Phases |-> IF phase_results[k] = None THEN <<>> ELSE phase_results[k][1]]

PhaseRequests(k) == PhaseRequestsFrom(k, Fetched)

\* _batch_phase1 up to its call of send_batch: no check for an empty list.
BatchPhase1 ==
    /\ pc = "phase1"
    /\ phase' = 1
    /\ requests' = [requests EXCEPT ![1] = Some(PhaseRequests(1))]
    /\ pc' = "send_write"
    /\ UNCHANGED <<raised, inputVars, setupVars, fnVars, other, files, uploads, jobs, job_id,
                   phase_results, singleVars, results>>

\* BatchLaterPhase without the early return: the empty request list is sent
BatchLaterPhase_NoSkip(k) ==
    /\ pc = PhaseStart(k)
    /\ k <= LastPhase
    /\ phase' = k
    /\ requests' = [requests EXCEPT ![k] = Some(PhaseRequests(k))]
    /\ pc' = "send_write"
    /\ UNCHANGED <<raised, inputVars, setupVars, fnVars, other, files, uploads, jobs, job_id,
                   phase_results, singleVars, results>>

\* BatchLaterPhase taking the records out of the previous phase's results as
\* it reads them
BatchLaterPhase_Consuming(k) ==
    /\ pc = PhaseStart(k)
    /\ k <= LastPhase
    /\ phase' = k
    /\ LET reqs == PhaseRequests(k)
       IN  /\ requests' = [requests EXCEPT ![k] = Some(reqs)]
           /\ IF reqs = <<>>
              THEN /\ phase_results' = [phase_results EXCEPT ![k] = Some(<<>>),
                                                             ![k - 1] = Some(<<>>)]
                   /\ pc' = PhaseStart(k + 1)
              ELSE /\ pc' = "send_write"
                   /\ phase_results' = [phase_results EXCEPT ![k - 1] = Some(<<>>)]
    /\ UNCHANGED <<raised, inputVars, setupVars, fnVars, other, files, uploads, jobs,
                   job_id, singleVars, results>>

\* _batch_phase2 / _batch_phase3 up to the call of send_batch, or their early
\* return of [] when no request was built.
BatchLaterPhase(k) ==
    /\ pc = PhaseStart(k)
    /\ k <= LastPhase
    /\ phase' = k
    /\ LET reqs == PhaseRequests(k)
       IN  /\ requests' = [requests EXCEPT ![k] = Some(reqs)]
           /\ IF reqs = <<>>
              THEN /\ phase_results' = [phase_results EXCEPT ![k] = Some(<<>>)]
                   /\ pc' = PhaseStart(k + 1)
              ELSE /\ pc' = "send_write"
                   /\ UNCHANGED phase_results
    /\ UNCHANGED <<raised, inputVars, setupVars, fnVars, other, files, uploads, jobs, job_id,
                   singleVars, results>>

BatchPhase2 == BatchLaterPhase(2)

BatchPhase3 == BatchLaterPhase(3)

\* Variant: only the first request of the list reaches the file
SendBatchWrite_FirstLine ==
    /\ pc = "send_write"
    /\ files' = [files EXCEPT ![phase] =
                     Some(IF requests[phase][1] = <<>> THEN <<>>
                          ELSE <<Head(requests[phase][1])>>)]
    /\ pc' = "send_upload"
    /\ UNCHANGED <<raised, inputVars, setupVars, fnVars, other, phase, requests, uploads, jobs,
                   job_id, phase_results, singleVars, results>>

\* send_batch: write the request list to the phase's file
SendBatchWrite ==
    /\ pc = "send_write"
    /\ files' = [files EXCEPT ![phase] = Some(requests[phase][1])]
    /\ pc' = "send_upload"
    /\ UNCHANGED <<raised, inputVars, setupVars, fnVars, other, phase, requests, uploads, jobs,
                   job_id, phase_results, singleVars, results>>

\* send_batch: reopen the file and upload it
SendBatchUpload ==
    /\ pc = "send_upload"
    /\ uploads' = Append(uploads, files[phase][1])
    /\ pc' = "send_create"
    /\ UNCHANGED <<raised, inputVars, setupVars, fnVars, other, phase, requests, files, jobs,
                   job_id, phase_results, singleVars, results>>

\* send_batch: create the job on the uploaded file; _wait_for_batch gets its id
SendBatchCreate ==
    /\ pc = "send_create"
    /\ jobs' = Append(jobs, [input_file_id |-> Len(uploads), status |-> "validating",
                             has_output |-> FALSE, phase |-> phase])
    /\ job_id' = Len(jobs) + 1
    /\ pc' = "check"
    /\ UNCHANGED <<raised, inputVars, setupVars, fnVars, other, phase, requests, files, uploads,
                   phase_results, singleVars, results>>

\* _wait_for_batch: status = check_batch(batch_id), and the loop's test
CheckBatch ==
    /\ pc = "check"
    /\ pc' = IF IsComplete(jobs[job_id].status) THEN "get_results" ELSE "sleep"
    /\ UNCHANGED <<raised, inputVars, setupVars, fnVars, other, phase, requests, files, uploads,
                   jobs, job_id, phase_results, singleVars, results>>

\* Variant: one sleep, then the fetch, whatever the job's status
Sleep_ThenFetch ==
    /\ pc = "sleep"
    /\ pc' = "get_results"
    /\ UNCHANGED <<raised, inputVars, setupVars, fnVars, other, batchVars, singleVars, results>>

\* _wait_for_batch: time.sleep(30)
Sleep ==
    /\ pc = "sleep"
    /\ pc' = "check"
    /\ UNCHANGED <<raised, inputVars, setupVars, fnVars, other, batchVars, singleVars, results>>

\* The output file a finished job may be found to have (None: no output
\* file).  A completed job's file holds, in the order of its input, a line for every
\* request it did not leave out; an expired or cancelled job's file holds
\* the line of the first request, the one it had served.
OutputFilesOn(job, input) ==
    IF ~job.has_output THEN {None}
    ELSE IF job.status = "completed"
    THEN {Some(OutputLines(input, outcome)) : outcome \in JobOutcomes(input)}
    ELSE {Some(OutputLines(input, PartialOutcome(input)))}

OutputFiles(job) == OutputFilesOn(job, uploads[job.input_file_id])

\* get_batch_results: [] when the job has no output file, else its lines
BatchResultsOf(output_file) ==
    IF output_file = None THEN <<>> ELSE output_file[1]

\* Variant: a job that did not complete has its phase submitted again
GetBatchResults_Resubmit ==
    /\ pc = "get_results"
    /\ IF jobs[job_id].status = "completed"
       THEN /\ \E output_file \in OutputFiles(jobs[job_id]) :
                   phase_results' = [phase_results EXCEPT
                                        ![phase] = Some(BatchResultsOf(output_file))]
            /\ pc' = PhaseStart(phase + 1)
       ELSE /\ pc' = "send_write"
            /\ UNCHANGED phase_results
    /\ UNCHANGED <<raised, inputVars, setupVars, fnVars, other, phase, requests, files, uploads,
                   jobs, job_id, singleVars, results>>

\* _wait_for_batch: return get_batch_results(batch_id), into phaseN_results
GetBatchResults ==
    /\ pc = "get_results"
    /\ \E output_file \in OutputFiles(jobs[job_id]) :
           phase_results' = [phase_results EXCEPT ![phase] = Some(BatchResultsOf(output_file))]
    /\ pc' = PhaseStart(phase + 1)
    /\ UNCHANGED <<raised, inputVars, setupVars, fnVars, other, phase, requests, files, uploads,
                   jobs, job_id, singleVars, results>>

\* _combine_results of the variant, on the phase results pr
CombineResultsOf(records, pr) ==
    IF variant = "direct"
    THEN DirectCombineResults(records, pr[1], pr[2], id_column)
    ELSE QACombineResults(records, pr[1], pr[2], pr[3], id_column)

CombineResultsFrom(pr) == CombineResultsOf(articles, pr)

\* CombineResults taking the records out of the phase results as it reads them
CombineResults_Consuming ==
    /\ pc = "combine"
    /\ results' = CombineResultsFrom(Fetched)
    /\ phase_results' = [k \in Phases |->
                            IF phase_results[k] = None THEN None ELSE Some(<<>>)]
    /\ pc' = "done"
    /\ UNCHANGED <<raised, inputVars, setupVars, fnVars, other, phase, requests, files, uploads,
                   jobs, job_id, singleVars>>

\* process_batch: return self._combine_results(config)
CombineResults ==
    /\ pc = "combine"
    /\ results' = CombineResultsFrom(Fetched)
    /\ pc' = "done"
    /\ UNCHANGED <<raised, inputVars, setupVars, fnVars, other, batchVars, singleVars>>

\* Variant: the failed call counts as a phase that brought nothing back, and
\* the batch goes on with the next phase.
BatchCallRaises_Caught ==
    /\ pc \in {"send_upload", "send_create", "check", "get_results"}
    /\ phase_results' = [phase_results EXCEPT ![phase] = Some(<<>>)]
    /\ pc' = PhaseStart(phase + 1)
    /\ raised' = Some("APIError")
    /\ UNCHANGED <<inputVars, setupVars, fnVars, other, phase, requests, files, uploads, jobs,
                   job_id, singleVars, results>>

\* A remote call of process_batch (upload, job creation, status, result
\* fetch) raises: nothing in process_batch catches it, and its locals (the
\* request lists, the job id, the earlier phases' results) go with its frame.
\* The phase files, the uploads and the jobs stay.
BatchCallRaises ==
    /\ pc \in {"send_upload", "send_create", "check", "get_results"}
    /\ pc' = "raised"
    /\ phase' = 0
    /\ requests' = [k \in Phases |-> None]
    /\ job_id' = 0
    /\ phase_results' = [k \in Phases |-> None]
    /\ raised' = Some("APIError")
    /\ UNCHANGED <<inputVars, setupVars, fnVars, other, files, uploads, jobs, singleVars, results>>

\* ------------------------------------------------------------------ the remote jobs

\* The remote service is followed while a caller waits for one of its jobs:
\* what a job does after its caller has gone is seen by nobody.
Watched == pc \in {"check", "sleep"}

\* A job moves on inside the remote service.
JobProgress ==
    \E n \in 1..Len(jobs) :
        /\ Watched
        /\ \/ /\ jobs[n].status = "validating"
              /\ jobs' = [jobs EXCEPT ![n].status = "in_progress"]
           \/ /\ jobs[n].status = "in_progress"
              /\ \E s \in {"finalizing", "cancelling"} :
                     jobs' = [jobs EXCEPT ![n].status = s]
        /\ UNCHANGED <<raised, inputVars, setupVars, fnVars, other, pc, phase, requests, files,
                   uploads, job_id, phase_results, singleVars, results>>

\* A job ends: completed with an output file, failed with none, expired or
\* cancelled with or without one.
JobEnds ==
    \E n \in 1..Len(jobs) :
        /\ Watched
        /\ \/ /\ jobs[n].status = "finalizing"
              /\ jobs' = [jobs EXCEPT ![n].status = "completed", ![n].has_output = TRUE]
           \/ /\ jobs[n].status = "validating"
              /\ jobs' = [jobs EXCEPT ![n].status = "failed"]
           \/ /\ jobs[n].status \in {"in_progress", "cancelling"}
              /\ \E has_output \in BOOLEAN :
                     jobs' = [jobs EXCEPT
                                ![n].status = IF jobs[n].status = "cancelling"
                                              THEN "cancelled" ELSE "expired",
                                ![n].has_output = has_output]
        /\ UNCHANGED <<raised, inputVars, setupVars, fnVars, other, pc, phase, requests, files,
                   uploads, job_id, phase_results, singleVars, results>>

\* ------------------------------------------------------------------ run_pipeline, sequential mode

\* OpenAIClient.call: what it may return for a prompt: a completion, or ""
\* for a null content (content or "")
CallReturns(prompt) ==
    {Completion(prompt, kind) : kind \in CompletionKinds(prompt)} \cup {<<>>}

\* DirectExtractionResult(text=text, article_id=article_id) and
\* QAResult(text=text, article_id=article_id): the dataclass defaults
NewResult(text, article_id) ==
    IF variant = "direct"
    THEN [text |-> text, article_id |-> article_id, conclusions |-> None,
          arguments |-> None, success |-> FALSE, error_message |-> None]
    ELSE [text |-> text, article_id |-> article_id, questions |-> None,
          arguments |-> None, success |-> FALSE, error_message |-> None]

\* The phase-1 items of the result under construction
ItemsOf(r) == IF variant = "direct" THEN r.conclusions[1] ELSE r.questions[1]

\* The call process_single is about to make: the prompt template it fills
\* and the item (1-based) it is for, 0 for the phase-1 call
NextCall ==
    IF pc = "extract"
    THEN [tpl |-> IF variant = "direct" THEN "conclusion_extraction"
                  ELSE "question_extraction",
          item |-> 0]
    ELSE IF pc = "construct" THEN [tpl |-> "argument_construction", item |-> j]
    ELSE [tpl |-> IF variant = "direct" THEN "premise_extraction"
                  ELSE "question_answering",
          item |-> j]

\* run_pipeline's loop: the next article enters process_single
ProcessSingle ==
    /\ pc = "loop"
    /\ index < Len(articles)
    /\ result' = Some(NewResult(articles[index + 1].text, Some(articles[index + 1].id)))
    /\ pc' = "extract"
    /\ UNCHANGED <<raised, inputVars, setupVars, fnVars, other, batchVars, index, calls,
                   arguments_list, j, answer, results>>

\* run_pipeline's loop ends: return results
ReturnResults ==
    /\ pc = "loop"
    /\ index >= Len(articles)
    /\ pc' = "done"
    /\ UNCHANGED <<raised, inputVars, setupVars, fnVars, other, batchVars, singleVars, results>>

\* extract_conclusions / extract_questions, and the entry of
\* _process_conclusions / _process_questions
ExtractItems ==
    /\ pc = "extract"
    /\ \E response \in CallReturns(Prompt(IF variant = "direct" THEN "conclusion_extraction"
                                          ELSE "question_extraction",
                                          result[1].text, <<>>, <<>>)) :
           result' = IF variant = "direct"
                     THEN Some([result[1] EXCEPT !.conclusions = Some(ParseListItems(response))])
                     ELSE Some([result[1] EXCEPT !.questions = Some(ParseQuestions(response))])
    /\ arguments_list' = <<>>
    /\ j' = 1
    /\ pc' = "items"
    /\ calls' = Append(calls, NextCall)
    /\ UNCHANGED <<raised, inputVars, setupVars, fnVars, other, batchVars, index, answer,
                   results>>

\* _process_conclusions: extract_premises for the next conclusion, and the append
ExtractPremises ==
    /\ pc = "items"
    /\ variant = "direct"
    /\ j <= Len(ItemsOf(result[1]))
    /\ LET conclusion == ItemsOf(result[1])[j]
       IN  \E response \in CallReturns(Prompt("premise_extraction", result[1].text,
                                              conclusion, <<>>)) :
               arguments_list' = Append(arguments_list,
                                        [conclusion |-> conclusion,
                                         premises |-> ParseListItems(response)])
    /\ j' = j + 1
    /\ calls' = Append(calls, NextCall)
    /\ UNCHANGED <<raised, inputVars, setupVars, fnVars, other, batchVars, pc, index, result, answer, results>>

\* Variant: an empty answer gets no argument_construction call, as in the
\* batch path, and the loop goes to the next question
AnswerQuestion_SkipsEmpty ==
    /\ pc = "items"
    /\ variant = "qa"
    /\ j <= Len(ItemsOf(result[1]))
    /\ \E response \in CallReturns(Prompt("question_answering", result[1].text,
                                          ItemsOf(result[1])[j], <<>>)) :
           IF response = <<>>
           THEN /\ answer' = <<>>
                /\ j' = j + 1
                /\ pc' = "items"
           ELSE /\ answer' = response
                /\ pc' = "construct"
                /\ UNCHANGED j
    /\ calls' = Append(calls, NextCall)
    /\ UNCHANGED <<raised, inputVars, setupVars, fnVars, other, batchVars, index, result,
                   arguments_list, results>>

\* _process_questions: answer_question for the next question
AnswerQuestion ==
    /\ pc = "items"
    /\ variant = "qa"
    /\ j <= Len(ItemsOf(result[1]))
    /\ \E response \in CallReturns(Prompt("question_answering", result[1].text,
                                          ItemsOf(result[1])[j], <<>>)) :
           answer' = response
    /\ pc' = "construct"
    /\ calls' = Append(calls, NextCall)
    /\ UNCHANGED <<raised, inputVars, setupVars, fnVars, other, batchVars, index, result,
                   arguments_list, j, results>>

\* _process_questions: construct_argument for the question and its answer,
\* and the append
ConstructArgument ==
    /\ pc = "construct"
    /\ LET question == ItemsOf(result[1])[j]
       IN  \E response \in CallReturns(Prompt("argument_construction", <<>>,
                                              question, answer)) :
               LET arg == ParseArgument(response)
               IN  arguments_list' = Append(arguments_list,
                                            [question |-> question,
                                             answer |-> answer,
                                             claim |-> arg.claim,
                                             premises |-> arg.premises])
    /\ j' = j + 1
    /\ answer' = <<>>
    /\ pc' = "items"
    /\ calls' = Append(calls, NextCall)
    /\ UNCHANGED <<raised, inputVars, setupVars, fnVars, other, batchVars, index, result,
                   results>>

\* process_single: the item loop is over: result.arguments = ...,
\* result.success = True
ItemsDone ==
    /\ pc = "items"
    /\ j > Len(ItemsOf(result[1]))
    /\ result' = Some([result[1] EXCEPT !.arguments = Some(arguments_list),
                                        !.success = TRUE])
    /\ pc' = "return"
    /\ UNCHANGED <<raised, inputVars, setupVars, fnVars, other, batchVars, index, calls,
                   arguments_list, j, answer, results>>

\* A call of the single path is about to be made
AtSingleCall ==
    \/ pc \in {"extract", "construct"}
    \/ pc = "items" /\ j <= Len(ItemsOf(result[1]))

\* Variant: the result of the failed article takes the arguments built so far
SingleCallRaisesCaught_KeepsPartial ==
    /\ AtSingleCall
    /\ result' = Some([result[1] EXCEPT !.error_message = Some("call failed"),
                                        !.arguments = Some(arguments_list)])
    /\ pc' = "return"
    /\ calls' = Append(calls, NextCall)
    /\ UNCHANGED <<raised, inputVars, setupVars, fnVars, other, batchVars, index,
                   arguments_list, j, answer, results>>

\* The call raises a ValueError, KeyError or RuntimeError: process_single
\* catches it, result.error_message = str(e)
SingleCallRaisesCaught ==
    /\ AtSingleCall
    /\ result' = Some([result[1] EXCEPT !.error_message = Some("call failed")])
    /\ pc' = "return"
    /\ calls' = Append(calls, NextCall)
    /\ UNCHANGED <<raised, inputVars, setupVars, fnVars, other, batchVars, index, arguments_list, j, answer, results>>

\* An exception that process_single does not catch leaves it and
\* run_pipeline, whose locals (the results so far among them) go.
Propagates(exception) ==
    /\ AtSingleCall
    /\ pc' = "raised"
    /\ calls' = <<>>
    /\ index' = 0
    /\ result' = None
    /\ arguments_list' = <<>>
    /\ j' = 0
    /\ answer' = <<>>
    /\ results' = <<>>
    /\ raised' = Some(exception)
    /\ UNCHANGED <<inputVars, setupVars, fnVars, other, batchVars>>

\* The remote call fails with one of the client library's own errors, which
\* are none of ValueError, KeyError, RuntimeError.
SingleCallRaisesOther == Propagates("APIError")

\* OpenAIClient.call: the response holds an empty choices list, and
\* response.choices[0] raises IndexError, which process_single does not catch.
SingleCallNoChoices == Propagates("IndexError")

\* process_single returns; run_pipeline appends the result
AppendResult ==
    /\ pc = "return"
    /\ results' = Append(results, result[1])
    /\ calls' = <<>>
    /\ index' = index + 1
    /\ result' = None
    /\ arguments_list' = <<>>
    /\ j' = 0
    /\ answer' = <<>>
    /\ pc' = "loop"
    /\ UNCHANGED <<raised, inputVars, setupVars, fnVars, other, batchVars>>

SingleNext ==
    \/ ProcessSingle \/ ReturnResults \/ ExtractItems
    \/ ExtractPremises \/ AnswerQuestion \/ ConstructArgument \/ ItemsDone
    \/ SingleCallRaisesCaught \/ SingleCallRaisesOther \/ SingleCallNoChoices
    \/ AppendResult

BatchNext ==
    \/ BatchPhase1 \/ BatchPhase2 \/ BatchPhase3
    \/ SendBatchWrite \/ SendBatchUpload \/ SendBatchCreate
    \/ CheckBatch \/ Sleep \/ GetBatchResults \/ CombineResults
    \/ BatchCallRaises
    \/ JobProgress \/ JobEnds

Next == BatchNext \/ SingleNext

Spec == Init /\ [][Next]_vars

SpecLong == InitLong /\ [][BatchNext]_vars

\* A batch call on one article that has the text column
InitOne ==
    /\ mode = "batch"
    /\ variant \in {"direct", "qa"}
    /\ articles = <<Article(1, TRUE)>>
    /\ id_column = Some("article_id")
    /\ InitRun
    /\ other = NoCall

\* The points process_batch's thread can be at
ProgramPoints ==
    {"phase1", "phase2", "phase3", "send_write", "send_upload", "send_create",
     "check", "sleep", "get_results", "combine", "done", "raised"}

\* process_batch has neither returned nor raised
Running == mode = "batch" /\ pc \notin {"done", "raised"}

\* The thread of process_batch moves on to another statement
Advance == Running /\ \E point \in ProgramPoints \ {pc} : pc' = point

\* process_batch runs on one thread that is never starved: while it has
\* neither returned nor raised it moves on (time.sleep returns, a remote
\* call answers or raises).  Nothing is assumed of the remote jobs.
SpecLive == InitOne /\ [][BatchNext]_vars /\ WF_pc(Advance)


\* ------------------------------------------------------------------ construction of the extractor

\* `not api_key`: None and "" are both falsy
HasKey_NotNone(key) == key # None

\* A key that is given and not empty
HasKey(key) == key # None /\ key[1] # ""

\* load_dotenv(): a variable of the .env file is put into os.environ unless
\* os.environ already has it (override is off)
LoadDotenv(env, file) == IF env = None THEN file ELSE env

\* api_key or os.getenv("OPENAI_API_KEY")
KeyOrEnv(key, env) == IF HasKey(key) THEN key ELSE env

\* The extractor's __init__ builds its OpenAIClient: load_dotenv, the key from
\* the argument or the environment, ValueError when there is none, else the
\* client; run_pipeline is then called with the extractor.
Construct ==
    /\ pc = "init"
    /\ environ' = LoadDotenv(environ, dotenv)
    /\ LET key == KeyOrEnv(api_key, environ')
       IN  IF HasKey(key)
           THEN /\ client' = key
                /\ pc' = IF mode = "batch" THEN "phase1" ELSE "loop"
                /\ raised' = None
           ELSE /\ client' = None
                /\ pc' = "raised"
                /\ raised' = Some("ValueError")
    /\ UNCHANGED <<inputVars, fnVars, api_key, dotenv, other, batchVars, singleVars,
                   results>>

\* An extractor is about to be constructed, for a run on one article.
InitSetup ==
    /\ mode \in {"batch", "single"}
    /\ variant \in {"direct", "qa"}
    /\ articles = <<Article(1, TRUE)>>
    /\ id_column = Some("article_id")
    /\ api_key \in {None, Some(""), Some(TheKey)}
    /\ dotenv \in {None, Some(TheKey)}
    /\ environ \in {None, Some(""), Some(TheKey)}
    /\ client = None
    /\ pc = "init"
    /\ InitLocals
    /\ NotApplied
    /\ other = NoCall

SetupNext == Construct \/ Next

SpecSetup == InitSetup /\ [][SetupNext]_vars


\* ------------------------------------------------------------------ a second process_batch call

\* A second call of process_batch, on another article, made on the same
\* extractor while the first one runs.  Its output_dir is its own, or the
\* one the first call uses ("shared").  It holds its locals in `other`.  The
\* remote service names every file and every job by an id of its own, which
\* only the call that made it receives: the files and jobs of the second
\* call are kept apart, in `other` as well.  What the two calls may share is
\* the phase files, when the directory is the same.
SecondCall(output_dir) ==
    [NoCall EXCEPT !.pc = "phase1", !.output_dir = output_dir,
                   !.articles = <<Article(2, TRUE)>>]

InitTwo ==
    /\ mode = "batch"
    /\ variant = "direct"
    /\ articles = <<Article(1, TRUE)>>
    /\ id_column = Some("article_id")
    /\ InitRun
    /\ other \in {SecondCall(output_dir) : output_dir \in {"own", "shared"}}

\* Variant: the second call is given the directory of the first
OtherOutputDir_Default == "shared"

\* Variant: the second call always has a directory of its own
OtherOutputDir_Own == "own"

\* Path(output_dir) of the second call
OtherOutputDir == other.output_dir

\* What is at the path of the second call's phase file:
\* output_dir / "phaseK_....jsonl"
OtherPhaseFile(k) ==
    IF OtherOutputDir = "shared" THEN files[k] ELSE other.files[k]

OtherFetched ==
    [k \in Phases |->
        IF other.phase_results[k] = None THEN <<>> ELSE other.phase_results[k][1]]

\* _batch_phaseK of the second call up to its call of send_batch, or the
\* early return of the later phases
OtherPhase(k) ==
    /\ other.pc = PhaseStart(k)
    /\ k <= LastPhase
    /\ LET reqs == PhaseRequestsOf(other.articles, k, OtherFetched)
       IN  other' = IF k > 1 /\ reqs = <<>>
                    THEN [other EXCEPT !.phase = k, !.requests[k] = Some(reqs),
                                       !.phase_results[k] = Some(<<>>),
                                       !.pc = PhaseStart(k + 1)]
                    ELSE [other EXCEPT !.phase = k, !.requests[k] = Some(reqs),
                                       !.pc = "send_write"]
    /\ UNCHANGED <<inputVars, setupVars, fnVars, pc, batchVars, singleVars, results, raised>>

OtherBatchPhase == \E k \in Phases : OtherPhase(k)

\* send_batch of the second call: write the phase file
OtherSendBatchWrite ==
    /\ other.pc = "send_write"
    /\ LET written == Some(other.requests[other.phase][1])
       IN  IF OtherOutputDir = "shared"
           THEN /\ files' = [files EXCEPT ![other.phase] = written]
                /\ other' = [other EXCEPT !.pc = "send_upload"]
           ELSE /\ files' = files
                /\ other' = [other EXCEPT !.files[other.phase] = written,
                                          !.pc = "send_upload"]
    /\ UNCHANGED <<inputVars, setupVars, fnVars, pc, phase, requests, uploads, jobs, job_id,
                   phase_results, singleVars, results, raised>>

\* send_batch of the second call: reopen the path and upload what it holds
OtherSendBatchUpload ==
    /\ other.pc = "send_upload"
    /\ other' = [other EXCEPT
                    !.uploads = Append(@, OtherPhaseFile(other.phase)[1]),
                    !.pc = "send_create"]
    /\ UNCHANGED <<inputVars, setupVars, fnVars, pc, batchVars, singleVars, results, raised>>

\* send_batch of the second call: create the job on the uploaded file
OtherSendBatchCreate ==
    /\ other.pc = "send_create"
    /\ other' = [other EXCEPT
                    !.jobs = Append(@, [input_file_id |-> Len(other.uploads),
                                        status |-> "validating",
                                        has_output |-> FALSE,
                                        phase |-> other.phase]),
                    !.job_id = Len(other.jobs) + 1,
                    !.pc = "check"]
    /\ UNCHANGED <<inputVars, setupVars, fnVars, pc, batchVars, singleVars, results, raised>>

\* _wait_for_batch of the second call: check_batch and the loop's test
OtherCheckBatch ==
    /\ other.pc = "check"
    /\ other' = [other EXCEPT !.pc = IF IsComplete(other.jobs[other.job_id].status)
                                     THEN "get_results" ELSE "sleep"]
    /\ UNCHANGED <<inputVars, setupVars, fnVars, pc, batchVars, singleVars, results, raised>>

\* _wait_for_batch of the second call: time.sleep(30)
OtherSleep ==
    /\ other.pc = "sleep"
    /\ other' = [other EXCEPT !.pc = "check"]
    /\ UNCHANGED <<inputVars, setupVars, fnVars, pc, batchVars, singleVars, results, raised>>

\* _wait_for_batch of the second call: return get_batch_results(batch_id)
OtherGetBatchResults ==
    /\ other.pc = "get_results"
    /\ LET job == other.jobs[other.job_id]
       IN  \E output_file \in OutputFilesOn(job, other.uploads[job.input_file_id]) :
               other' = [other EXCEPT
                            !.phase_results[other.phase] =
                                Some(BatchResultsOf(output_file)),
                            !.pc = PhaseStart(other.phase + 1)]
    /\ UNCHANGED <<inputVars, setupVars, fnVars, pc, batchVars, singleVars, results, raised>>

\* The second call returns self._combine_results(config)
OtherCombineResults ==
    /\ other.pc = "combine"
    /\ other' = [other EXCEPT
                    !.results = CombineResultsOf(other.articles, OtherFetched),
                    !.pc = "done"]
    /\ UNCHANGED <<inputVars, setupVars, fnVars, pc, batchVars, singleVars, results, raised>>

\* A job of the second call moves on inside the remote service.
OtherJobProgress ==
    \E n \in 1..Len(other.jobs) :
        /\ other.pc \in {"check", "sleep"}
        /\ \/ /\ other.jobs[n].status = "validating"
              /\ other' = [other EXCEPT !.jobs[n].status = "in_progress"]
           \/ /\ other.jobs[n].status = "in_progress"
              /\ \E s \in {"finalizing", "cancelling"} :
                     other' = [other EXCEPT !.jobs[n].status = s]
        /\ UNCHANGED <<inputVars, setupVars, fnVars, pc, batchVars, singleVars, results, raised>>

\* A job of the second call ends.
OtherJobEnds ==
    \E n \in 1..Len(other.jobs) :
        /\ other.pc \in {"check", "sleep"}
        /\ \/ /\ other.jobs[n].status = "finalizing"
              /\ other' = [other EXCEPT !.jobs[n].status = "completed",
                                        !.jobs[n].has_output = TRUE]
           \/ /\ other.jobs[n].status = "validating"
              /\ other' = [other EXCEPT !.jobs[n].status = "failed"]
           \/ /\ other.jobs[n].status \in {"in_progress", "cancelling"}
              /\ \E has_output \in BOOLEAN :
                     other' = [other EXCEPT
                                 !.jobs[n].status =
                                     IF other.jobs[n].status = "cancelling"
                                     THEN "cancelled" ELSE "expired",
                                 !.jobs[n].has_output = has_output]
        /\ UNCHANGED <<inputVars, setupVars, fnVars, pc, batchVars, singleVars, results, raised>>

OtherNext ==
    \/ OtherBatchPhase
    \/ OtherSendBatchWrite \/ OtherSendBatchUpload \/ OtherSendBatchCreate
    \/ OtherCheckBatch \/ OtherSleep \/ OtherGetBatchResults \/ OtherCombineResults
    \/ OtherJobProgress \/ OtherJobEnds

\* The steps of the first call (direct variant: two phases) and of its jobs
FirstNext ==
    \/ BatchPhase1 \/ BatchPhase2
    \/ SendBatchWrite \/ SendBatchUpload \/ SendBatchCreate
    \/ CheckBatch \/ Sleep \/ GetBatchResults \/ CombineResults
    \/ BatchCallRaises
    \/ JobProgress \/ JobEnds

TwoNext == FirstNext \/ OtherNext

SpecTwo == InitTwo /\ [][TwoNext]_vars


\* ------------------------------------------------------------------ properties

Returned == pc = "done"

\* C1: when process_batch returns, the result list has one result per input
\* article, in input order: result k holds the text of article k ("" when
\* the article has no text column) and, when id_column is given, its id,
\* whatever the jobs' output files held and however the jobs ended.
C1_Completeness ==
    (mode = "batch" /\ Returned) =>
        /\ Len(results) = Len(articles)
        /\ \A k \in 1..Len(articles) :
               /\ results[k].text = (IF articles[k].hasText THEN articles[k].text ELSE <<>>)
               /\ results[k].article_id =
                      (IF id_column # None THEN Some(articles[k].id) ELSE None)

\* Two articles, a job that expired, a phase whose output lacks a key, and
\* the call returned.
C1_Witness ==
    /\ mode = "batch" /\ Returned
    /\ Len(articles) = 2 /\ Len(results) = 2
    /\ ~articles[1].hasText
    /\ id_column # None
    /\ \E n \in 1..Len(jobs) : jobs[n].status = "expired"
    /\ \E k \in Phases :
           /\ requests[k] # None
           /\ Len(phase_results[k][1]) < Len(requests[k][1])

\* C2 (as claimed): every returned result, of process_batch or of
\* process_single, has success = true exactly when its arguments list is
\* non-empty.
C2_SuccessIffArguments ==
    \A k \in 1..Len(results) :
        results[k].success <=>
            (results[k].arguments # None /\ results[k].arguments[1] # <<>>)

\* C3: every returned result has error_message set exactly when success is
\* false, and in batch mode the message is "No arguments extracted".
C3_ErrorIffFailure ==
    \A k \in 1..Len(results) :
        /\ (results[k].error_message # None) <=> ~results[k].success
        /\ (mode = "batch" /\ ~results[k].success) =>
               results[k].error_message = Some("No arguments extracted")

\* A sequential run returned one result that failed on a caught error and
\* one that succeeded.
C3_Witness ==
    /\ mode = "single" /\ Returned
    /\ \E k \in 1..Len(results) :
           ~results[k].success /\ results[k].error_message = Some("call failed")
    /\ \E k \in 1..Len(results) :
           results[k].success /\ results[k].error_message = None

\* The records of a phase's results that carry a custom_id
RecordsUnder(phase_results_k, custom_id) ==
    SelectSeq(phase_results_k, LAMBDA r : r.custom_id = custom_id)

\* The correlation keys the request builders make for the article at input
\* position n (1-based; its index i is n - 1)
ArticleKeys(n) ==
    {Key1(tag, n - 1) : tag \in {<<"c">>, <<"q">>}}
        \cup {Key2(tag, n - 1, jj) : tag \in {<<"p">>, <<"q", "a">>, <<"a", "r", "g">>},
                                     jj \in 0..(MaxQuestions - 1)}

\* The requests of a list that are not of article n
RequestsOfOthers(reqs, n) ==
    SelectSeq(reqs, LAMBDA r : r.custom_id \notin ArticleKeys(n))

\* C4: when process_batch has returned and the results of phase k lack the
\* key of a request built for article n, article n has an empty list (phase
\* 1), empty premises (direct phase 2) or no argument entry (question-answer
\* phases 2 and 3) for it, and for any record that could have arrived under
\* that key, the later phases' requests of every other article and the
\* combined result of every other article are the same as they are without it.
C4_MissingKeyIsLocal ==
    (mode = "batch" /\ Returned) =>
        \A k \in 1..LastPhase : \A x \in 1..Len(requests[k][1]) :
            LET req == requests[k][1][x]
                n == CHOOSE m \in 1..Len(articles) : req.custom_id \in ArticleKeys(m)
                args == results[n].arguments[1]
            IN  RecordsUnder(Fetched[k], req.custom_id) = <<>> =>
                    /\ k = 1 => ItemsOf(results[n]) = <<>> /\ args = <<>>
                    /\ (k = 2 /\ variant = "direct") =>
                           /\ \E a \in 1..Len(args) : args[a].conclusion = req.prompt.item
                           /\ \A a \in 1..Len(args) :
                                  args[a].conclusion = req.prompt.item =>
                                      args[a].premises = <<>>
                    /\ (k >= 2 /\ variant = "qa") =>
                           /\ \A a \in 1..Len(args) : args[a].question # req.prompt.item
                           /\ k = 2 =>
                                  \A y \in 1..Len(requests[3][1]) :
                                      requests[3][1][y].prompt.item # req.prompt.item
                    /\ \A outcome \in RequestOutcomes(req.prompt) \ {"omit"} :
                           LET with == [Fetched EXCEPT
                                          ![k] = Append(@, ResultRecord(req, outcome))]
                           IN  /\ \A m \in 1..Len(articles) :
                                      m # n => CombineResultsFrom(with)[m] = results[m]
                               /\ \A k2 \in (k + 1)..LastPhase :
                                      RequestsOfOthers(PhaseRequestsFrom(k2, with), n)
                                          = RequestsOfOthers(requests[k2][1], n)

\* A returned batch call of two articles with text: the phase-1 results
\* lacked the first article's key, and the second article got its arguments.
C4_Witness ==
    /\ mode = "batch" /\ Returned
    /\ Len(articles) = 2 /\ articles[1].hasText /\ articles[2].hasText
    /\ \E tag \in {<<"c">>, <<"q">>} :
           /\ requests[1][1][1].custom_id = Key1(tag, 0)
           /\ RecordsUnder(Fetched[1], Key1(tag, 0)) = <<>>
    /\ ~results[1].success
    /\ results[2].success

\* The segments of a correlation key, split at "_"
RECURSIVE KeySegments(_, _)
KeySegments(key, current) ==
    IF key = <<>> THEN <<current>>
    ELSE IF Head(key) = "_" THEN <<current>> \o KeySegments(Tail(key), <<>>)
    ELSE KeySegments(Tail(key), Append(current, Head(key)))

\* The number a segment of decimal digits writes
RECURSIVE IndexOfSegment(_)
IndexOfSegment(digits) ==
    IF digits = <<>> THEN 0
    ELSE 10 * IndexOfSegment(SubSeq(digits, 1, Len(digits) - 1))
         + ((CHOOSE d \in 1..10 : DigitChars[d] = digits[Len(digits)]) - 1)

\* The tag of the keys of phase k
PhaseTag(k) ==
    IF variant = "direct" THEN (IF k = 1 THEN <<"c">> ELSE <<"p">>)
    ELSE IF k = 1 THEN <<"q">> ELSE IF k = 2 THEN <<"q", "a">> ELSE <<"a", "r", "g">>

\* The texts (token sequences) a result holds besides the article's own
\* text and id
TextsOfResult(r) ==
    LET args == r.arguments[1]
    IN  {ItemsOf(r)[x] : x \in 1..Len(ItemsOf(r))}
        \cup UNION {{args[a].premises[x] : x \in 1..Len(args[a].premises)} :
                    a \in 1..Len(args)}
        \cup (IF variant = "direct"
              THEN {args[a].conclusion : a \in 1..Len(args)}
              ELSE UNION {{args[a].question, args[a].answer, args[a].claim} :
                          a \in 1..Len(args)})

\* C5: in a batch call, every request of every phase is keyed by the tag of
\* its phase and the 0-based input position of the article its prompt was
\* made from (a position that counts the articles without text), and when
\* the call has returned every conclusion, question, answer, claim and
\* premise in the result of article n was produced from article n.
C5_KeysCarryArticleIndex ==
    mode = "batch" =>
        /\ \A k \in Phases : requests[k] # None =>
               \A x \in 1..Len(requests[k][1]) :
                   LET req == requests[k][1][x]
                       n == IF req.prompt.text # <<>> THEN req.prompt.text[1].a
                            ELSE req.prompt.item[1].a
                       segments == KeySegments(req.custom_id, <<>>)
                   IN  /\ n \in 1..Len(articles)
                       /\ articles[n].hasText
                       /\ req.prompt.text \in {<<>>, articles[n].text}
                       /\ req.prompt.item # <<>> => req.prompt.item[1].a = n
                       /\ Len(segments) = (IF k = 1 THEN 2 ELSE 3)
                       /\ segments[1] = PhaseTag(k)
                       /\ IndexOfSegment(segments[2]) = n - 1
        /\ Returned =>
               \A n \in 1..Len(results) : \A text \in TextsOfResult(results[n]) :
                   \A x \in 1..Len(text) : text[x].a = n

\* A returned batch call whose first article lacks the text column and whose
\* second article got its arguments under the keys of index 1.
C5_Witness ==
    /\ mode = "batch" /\ Returned
    /\ Len(articles) = 2
    /\ ~articles[1].hasText
    /\ results[2].success
    /\ KeySegments(requests[LastPhase][1][1].custom_id, <<>>)[2] = <<"1">>
    /\ ~results[1].success

\* Phase k is over: it was skipped for want of requests, or a job of it is
\* in a final status.
PhaseOver(k) ==
    \/ k >= 2 /\ requests[k] = Some(<<>>)
    \/ \E n \in 1..Len(jobs) :
           jobs[n].phase = k /\ jobs[n].status \in TerminalStatuses

\* C6: in every step of process_batch, the requests of phase k are built,
\* and a job of phase k is created, only when every earlier phase is over
\* and its results are held; the results of a phase are taken only from a
\* skipped phase or from the job waited for, seen in a final status; and the
\* combination runs only when every phase of the variant is over and its
\* results are held.
C6_PhasesInSequence ==
    [][ /\ \A k \in Phases :
              (requests[k] = None /\ requests'[k] # None) =>
                  \A e \in 1..(k - 1) : PhaseOver(e) /\ phase_results[e] # None
        /\ Len(jobs') > Len(jobs) =>
              /\ jobs'[Len(jobs')].phase = phase
              /\ requests[phase] # None
              /\ \A e \in 1..(phase - 1) : PhaseOver(e) /\ phase_results[e] # None
        /\ (pc # "get_results" /\ pc' = "get_results") =>
              jobs[job_id].status \in TerminalStatuses
        /\ \A k \in Phases :
              (phase_results[k] = None /\ phase_results'[k] # None) =>
                  \/ k >= 2 /\ requests'[k] = Some(<<>>) /\ phase_results'[k] = Some(<<>>)
                  \/ /\ pc = "get_results"
                     /\ jobs[job_id].phase = k
                     /\ jobs[job_id].status \in TerminalStatuses
        /\ (pc # "done" /\ pc' = "done" /\ mode = "batch") =>
              \A k \in 1..LastPhase : PhaseOver(k) /\ phase_results[k] # None
      ]_vars

\* A question-answer batch call returned after three jobs, one per phase.
C6_Witness ==
    /\ mode = "batch" /\ variant = "qa" /\ Returned
    /\ Len(jobs) = 3
    /\ \A k \in Phases : jobs[k].phase = k /\ jobs[k].status \in TerminalStatuses
    /\ \E k \in Phases : jobs[k].status # "completed"

\* The items the phase-1 parser of the variant finds in a result record
Phase1ItemsOf(record) ==
    IF variant = "direct" THEN ParseListItems(ExtractBatchResult(record))
    ELSE ParseQuestions(ExtractBatchResult(record))

\* process_batch holds the phase-1 results, and no record of them yields an
\* item.
Phase1YieldsNothing ==
    /\ mode = "batch"
    /\ phase_results[1] # None
    /\ \A x \in 1..Len(phase_results[1][1]) : Phase1ItemsOf(phase_results[1][1][x]) = <<>>

\* C7: once the phase-1 results are in and yield no item for any article,
\* process_batch is only ever at the start of a later phase, at the
\* combination or returned, and can take its next step; every later phase
\* it has passed built no request and holds [] as results; the only jobs
\* are of phase 1; and the returned results all have success = false.
C7_NothingAfterEmptyPhase1 ==
    Phase1YieldsNothing =>
        /\ pc \in {"phase2", "phase3", "combine", "done"}
        /\ pc # "done" => ENABLED (BatchPhase2 \/ BatchPhase3 \/ CombineResults)
        /\ \A n \in 1..Len(jobs) : jobs[n].phase = 1
        /\ \A k \in 2..LastPhase :
               requests[k] # None =>
                   requests[k] = Some(<<>>) /\ phase_results[k] = Some(<<>>)
        /\ Returned =>
               /\ \A k \in 2..LastPhase : requests[k] = Some(<<>>)
               /\ Len(results) = Len(articles)
               /\ \A n \in 1..Len(results) : ~results[n].success

\* A question-answer batch call of two articles with text returned: the one
\* job completed with a record for each article and no question in either.
C7_Witness ==
    /\ Phase1YieldsNothing /\ Returned
    /\ variant = "qa"
    /\ Len(articles) = 2 /\ articles[1].hasText /\ articles[2].hasText
    /\ Len(jobs) = 1 /\ jobs[1].status = "completed"
    /\ Len(phase_results[1][1]) = 2
    /\ ~results[1].success /\ ~results[2].success

\* The questions the phase-1 results hold for the article at position n
\* (1-based): those of the record with content under q_<n-1>, none without
\* such a record.
Phase1QuestionsOf(n) ==
    LET records == SelectSeq(RecordsUnder(Fetched[1], Key1(<<"q">>, n - 1)),
                             LAMBDA r : ExtractBatchResult(r) # <<>>)
    IN  IF records = <<>> THEN <<>> ELSE Phase1ItemsOf(records[Len(records)])

\* The phase-2 results hold a non-empty answer under qa_<n-1>_<jj>.
AnswerPresent(n, jj) ==
    \E x \in 1..Len(Fetched[2]) :
        /\ Fetched[2][x].custom_id = Key2(<<"q", "a">>, n - 1, jj)
        /\ ExtractBatchResult(Fetched[2][x]) # <<>>

\* C8: in the question-answer variant, once the phase-3 requests are built
\* they hold a request keyed arg_i_j exactly for the i and j such that
\* article i has the text column, the phase-1 results hold a question j for
\* article i, and the phase-2 results hold a non-empty answer under
\* qa_i_j; they hold it once, and hold no request under any other key.
C8_Phase3RequestsIffAnswer ==
    (mode = "batch" /\ variant = "qa" /\ requests[3] # None) =>
        LET reqs == requests[3][1]
            Wanted(n, jj) ==
                /\ articles[n].hasText
                /\ jj < Len(Phase1QuestionsOf(n))
                /\ AnswerPresent(n, jj)
        IN  /\ \A n \in 1..Len(articles) : \A jj \in 0..(MaxQuestions - 1) :
                   Wanted(n, jj) <=>
                       (\E x \in 1..Len(reqs) :
                            reqs[x].custom_id = Key2(<<"a", "r", "g">>, n - 1, jj))
            /\ \A x \in 1..Len(reqs) :
                   \E n \in 1..Len(articles) : \E jj \in 0..(MaxQuestions - 1) :
                       reqs[x].custom_id = Key2(<<"a", "r", "g">>, n - 1, jj)
            /\ \A x, y \in 1..Len(reqs) :
                   reqs[x].custom_id = reqs[y].custom_id => x = y

\* The phase-1 results held two questions for the first article, the
\* phase-2 results an answer to the second of them only, and the phase-3
\* requests are built.
C8_Witness ==
    /\ mode = "batch" /\ variant = "qa" /\ requests[3] # None
    /\ Len(articles) >= 1 /\ articles[1].hasText
    /\ Len(Phase1QuestionsOf(1)) = 2
    /\ ~AnswerPresent(1, 0) /\ AnswerPresent(1, 1)
    /\ Len(requests[3][1]) >= 1
    /\ requests[3][1][1].custom_id = Key2(<<"a", "r", "g">>, 0, 1)

\* The phase-3 results hold a record with content under arg_<n-1>_<jj>.
ArgumentPresent(n, jj) ==
    \E x \in 1..Len(Fetched[3]) :
        /\ Fetched[3][x].custom_id = Key2(<<"a", "r", "g">>, n - 1, jj)
        /\ ExtractBatchResult(Fetched[3][x]) # <<>>

\* C9: when a question-answer batch call has returned, the questions list
\* of every article holds every question of its phase-1 record, which are
\* the questions phase 2 asked in that order; its arguments list holds,
\* in question order, one entry for each question that has both an answer
\* in the phase-2 results and an argument in the phase-3 results, and so
\* none for a question whose answer key is absent.
C9_AnsweredQuestionsInOrder ==
    (mode = "batch" /\ variant = "qa" /\ Returned) =>
        \A n \in 1..Len(articles) :
            LET questions == results[n].questions[1]
                args == results[n].arguments[1]
                asked == SelectSeq(requests[2][1],
                                   LAMBDA r : r.custom_id \in ArticleKeys(n))
                kept == SelectSeq([x \in 1..Len(questions) |-> x],
                                  LAMBDA x : /\ AnswerPresent(n, x - 1)
                                             /\ ArgumentPresent(n, x - 1))
            IN  /\ questions = Phase1QuestionsOf(n)
                /\ questions = [x \in 1..Len(asked) |-> asked[x].prompt.item]
                /\ Len(args) = Len(kept)
                /\ \A a \in 1..Len(args) : args[a].question = questions[kept[a]]
                /\ \A x \in 1..Len(questions) :
                       RecordsUnder(Fetched[2], Key2(<<"q", "a">>, n - 1, x - 1)) = <<>> =>
                           \A a \in 1..Len(args) : args[a].question # questions[x]

\* Three questions, the phase-2 results lack the key of the second one, and
\* the returned result holds the three questions and two arguments, for the
\* first and the third.
C9_Witness ==
    /\ mode = "batch" /\ variant = "qa" /\ Returned
    /\ Len(results) = 1
    /\ Len(results[1].questions[1]) = 3
    /\ RecordsUnder(Fetched[2], Key2(<<"q", "a">>, 0, 1)) = <<>>
    /\ Len(results[1].arguments[1]) = 2
    /\ results[1].arguments[1][1].question = results[1].questions[1][1]
    /\ results[1].arguments[1][2].question = results[1].questions[1][3]

\* The conclusions the phase-1 results hold for the article at position n
\* (1-based): those of the record with content under c_<n-1>, none without
\* such a record.
Phase1ConclusionsOf(n) ==
    LET records == SelectSeq(RecordsUnder(Fetched[1], Key1(<<"c">>, n - 1)),
                             LAMBDA r : ExtractBatchResult(r) # <<>>)
    IN  IF records = <<>> THEN <<>> ELSE Phase1ItemsOf(records[Len(records)])

\* C10: when a direct-extraction batch call has returned, an article whose
\* phase-1 record yields k >= 1 conclusions, each with a record under
\* p_i_j in the phase-2 results, has success = true, no error message and k
\* arguments, the j-th made of the j-th conclusion and of the premises
\* parsed from the record under p_i_j; an article with no conclusion has
\* success = false, arguments = [] and the message "No arguments extracted".
C10_DirectArguments ==
    (mode = "batch" /\ variant = "direct" /\ Returned) =>
        \A n \in 1..Len(articles) :
            LET conclusions == Phase1ConclusionsOf(n)
                k == Len(conclusions)
                Responses(jj) == RecordsUnder(Fetched[2], Key2(<<"p">>, n - 1, jj))
                args == results[n].arguments[1]
            IN  /\ (k >= 1 /\ \A jj \in 0..(k - 1) : Responses(jj) # <<>>) =>
                       /\ results[n].success
                       /\ results[n].error_message = None
                       /\ results[n].conclusions = Some(conclusions)
                       /\ Len(args) = k
                       /\ \A jj \in 0..(k - 1) :
                              /\ args[jj + 1].conclusion = conclusions[jj + 1]
                              /\ args[jj + 1].premises =
                                     ParseListItems(ExtractBatchResult(
                                         Responses(jj)[Len(Responses(jj))]))
                /\ k = 0 =>
                       /\ ~results[n].success
                       /\ results[n].arguments = Some(<<>>)
                       /\ results[n].error_message = Some("No arguments extracted")

\* Two articles with text: the first has two conclusions, each with its
\* premise, and succeeded with two arguments; the second has a phase-1
\* record without any conclusion and failed.
C10_Witness ==
    /\ mode = "batch" /\ variant = "direct" /\ Returned
    /\ Len(articles) = 2
    /\ Len(Phase1ConclusionsOf(1)) = 2
    /\ RecordsUnder(Fetched[1], Key1(<<"c">>, 1)) # <<>>
    /\ Phase1ConclusionsOf(2) = <<>>
    /\ results[1].success
    /\ Len(results[1].arguments[1]) = 2
    /\ \A a \in 1..2 : Len(results[1].arguments[1][a].premises) = 1
    /\ ~results[2].success

\* C11: when _wait_for_batch has seen its job failed, expired or cancelled,
\* its next step, unless the remote call itself fails, is the call of
\* get_batch_results; and for a job without an output file that call can
\* return, and returns [] as the phase's results.
C11_FetchAfterAnyTerminal ==
    [][ /\ ( /\ pc = "check" /\ pc' # "check"
             /\ jobs[job_id].status \in {"failed", "expired", "cancelled"}
             /\ raised' = None ) =>
                pc' = "get_results"
        /\ (pc = "get_results" /\ ~jobs[job_id].has_output) =>
                /\ ENABLED GetBatchResults
                /\ (pc' # "get_results" /\ raised' = None) =>
                       /\ phase_results'[phase] = Some(<<>>)
                       /\ pc' = PhaseStart(phase + 1)
      ]_vars

\* The job of a phase with requests failed, expired or was cancelled without
\* an output file, and the phase's results were fetched as [].
C11_Witness ==
    /\ mode = "batch"
    /\ job_id >= 1
    /\ jobs[job_id].status \in {"failed", "expired", "cancelled"}
    /\ ~jobs[job_id].has_output
    /\ jobs[job_id].phase = phase
    /\ requests[phase][1] # <<>>
    /\ phase_results[phase] = Some(<<>>)
    /\ pc = PhaseStart(phase + 1)

\* C12 (as claimed): whatever the remote responses hold, no exception
\* leaves process_batch or run_pipeline's calls of process_single other than
\* a failure of the remote call itself, and a call that returns gives one
\* result per article.
C12_NoRaiseOnResponseContent ==
    /\ raised \in {None, Some("APIError")}
    /\ Returned => Len(results) = Len(articles)

\* C13 (as claimed): in sequential mode no error of a remote call leaves
\* process_single: the article's result carries it (success = false,
\* error_message set), run_pipeline goes on to the next article, and the
\* returned list has one result per article.
C13_SingleErrorsContained ==
    mode = "single" =>
        /\ pc # "raised"
        /\ raised = None
        /\ Returned => Len(results) = Len(articles)

\* C14 (as claimed): a phase whose request list is empty raises a
\* configuration error instead of sending it, so no job is ever created on
\* an empty request file; in particular the first phase of a call without
\* any article that has the text column.
C14_EmptyBatchFailsFast ==
    mode = "batch" =>
        /\ requests[1] = Some(<<>>) => raised = Some("ConfigurationError")
        /\ \A k \in Phases : files[k] # Some(<<>>)
        /\ \A n \in 1..Len(jobs) : uploads[jobs[n].input_file_id] # <<>>

\* C15: the step that runs _combine_results leaves the articles and every
\* phase's results as they were, and running it again on them gives a list
\* identical to the one it returned.
C15_CombineIdempotent ==
    [][ (pc = "combine" /\ pc' = "done") =>
            /\ <<variant, articles, id_column>>' = <<variant, articles, id_column>>
            /\ phase_results' = phase_results
            /\ results' = CombineResultsFrom(Fetched)
            /\ results' = CombineResultsFrom(
                              [k \in Phases |-> IF phase_results'[k] = None THEN <<>>
                                                ELSE phase_results'[k][1]])
      ]_vars

\* A batch call returned results, one of them successful, combined from
\* phase results that hold records.
C15_Witness ==
    /\ mode = "batch" /\ Returned
    /\ Fetched[1] # <<>> /\ Fetched[2] # <<>>
    /\ \E n \in 1..Len(results) : results[n].success
    /\ results = CombineResultsFrom(Fetched)

\* The orders in which the lines of an output file may come back
Shuffles(records) ==
    IF records = <<>> THEN {<<>>}
    ELSE {[x \in 1..Len(records) |-> records[p[x]]] :
              p \in Permutations(1..Len(records))}

\* C16: when a batch call has returned, had the records of each phase's
\* results come back in any other order, the requests built for every later
\* phase and the combined results would be the ones the call built and
\* returned.
C16_OrderIndependent ==
    (mode = "batch" /\ Returned) =>
        \A r1 \in Shuffles(Fetched[1]) : \A r2 \in Shuffles(Fetched[2]) :
            \A r3 \in Shuffles(Fetched[3]) :
                LET shuffled == <<r1, r2, r3>>
                IN  /\ CombineResultsFrom(shuffled) = results
                    /\ \A k \in 2..LastPhase :
                           PhaseRequestsFrom(k, shuffled) = requests[k][1]

\* A returned batch call in which two articles succeeded and the phase-1
\* and phase-2 results each hold several records.
C16_Witness ==
    /\ mode = "batch" /\ Returned
    /\ Len(results) = 2 /\ results[1].success /\ results[2].success
    /\ Len(Fetched[1]) = 2
    /\ Len(Fetched[2]) >= 3
    /\ Fetched[1][1].content # Fetched[1][2].content

\* The map the variant builds from the results of phase k
PhaseMap(k, records) ==
    IF variant = "direct"
    THEN IF k = 1 THEN BuildConclusionsMap(records) ELSE BuildPremisesMap(records)
    ELSE IF k = 1 THEN BuildQuestionsMap(records)
         ELSE IF k = 2 THEN BuildAnswersMap(records)
         ELSE BuildArgumentsMap(records)

\* A list without its x-th element
Without(records, x) ==
    SubSeq(records, 1, x - 1) \o SubSeq(records, x + 1, Len(records))

\* C17 (as claimed): when a batch call has returned, every record of a
\* phase's results that carries no content has an entry under its key in
\* the map built from those results, and the combined results differ from
\* the ones the same results without that record give.
C17_EmptyContentKeptApart ==
    (mode = "batch" /\ Returned) =>
        \A k \in 1..LastPhase : \A x \in 1..Len(Fetched[k]) :
            ExtractBatchResult(Fetched[k][x]) = <<>> =>
                /\ Fetched[k][x].custom_id \in DOMAIN PhaseMap(k, Fetched[k])
                /\ CombineResultsFrom([Fetched EXCEPT ![k] = Without(@, x)]) # results

\* _wait_for_batch is in its poll loop
Polling == mode = "batch" /\ pc \in {"check", "sleep"}

\* The job _wait_for_batch waits for is in a final status
AwaitedJobOver == job_id >= 1 /\ jobs[job_id].status \in TerminalStatuses

\* C19: in a batch call in which no remote call ever raises and every job
\* waited for comes to a final status, process_batch returns (it leaves each
\* poll loop, reaches the combination and ends).
C19_ReturnsWhenJobsEnd ==
    (mode = "batch" /\ [](raised = None) /\ (Polling ~> AwaitedJobOver))
        => <>Returned

\* A question-answer batch call returned after waiting for three jobs, the
\* last of which expired.
C19_Witness ==
    /\ mode = "batch" /\ variant = "qa" /\ Returned
    /\ Len(jobs) = 3
    /\ jobs[1].status = "completed" /\ jobs[2].status = "completed"
    /\ jobs[3].status = "expired"
    /\ raised = None

\* The statements of process_batch that call the remote service
RemoteCallPoints == {"send_upload", "send_create", "check", "get_results"}

\* C20: in a batch call, each remote call (upload and job creation, status
\* query, result fetch) of each phase can raise; when one does, process_batch
\* ends by raising: it returns no result list, the results fetched in the
\* earlier phases are gone with it, and from then on no file is written, no
\* upload made and no job created.
C20_RaiseAbortsBatch ==
    [][mode = "batch" =>
        /\ pc \in RemoteCallPoints => ENABLED BatchCallRaises
        /\ (raised = None /\ raised' # None) =>
               /\ pc \in RemoteCallPoints
               /\ pc' = "raised"
               /\ results' = <<>>
               /\ \A k \in Phases : phase_results'[k] = None
               /\ <<files, uploads, jobs>>' = <<files, uploads, jobs>>
        /\ pc = "raised" =>
               /\ pc' = "raised"
               /\ results' = <<>>
               /\ <<files, uploads, jobs>>' = <<files, uploads, jobs>>]_vars

\* The result fetch of the second phase raised after the first phase's results
\* had been fetched from a completed job: nothing was returned and the third
\* phase was never written.
C20_Witness ==
    /\ mode = "batch" /\ variant = "qa" /\ pc = "raised"
    /\ raised = Some("APIError")
    /\ Len(jobs) = 2
    /\ jobs[1].status = "completed" /\ jobs[1].has_output
    /\ jobs[2].status = "completed"
    /\ files[3] = None
    /\ results = <<>>
    /\ \A k \in Phases : phase_results[k] = None

\* The results get_batch_results may return for a job created on `input`:
\* none, the lines of a completed job, or the line of a job that stopped
PossibleResults(input) ==
    {<<>>}
        \cup {OutputLines(input, outcome) : outcome \in JobOutcomes(input)}
        \cup {OutputLines(input, PartialOutcome(input))}

\* A call of process_batch on `records`, alone, can build the request lists
\* reqs, fetch the phase results pr and return res: each phase's requests
\* are the ones built from the records and the earlier results, each phase's
\* results are results of a job on those requests, and res combines them.
AsWhenAlone(records, reqs, pr, res) ==
    LET fetched == [k \in Phases |-> IF pr[k] = None THEN <<>> ELSE pr[k][1]]
    IN  /\ \A k \in 1..LastPhase :
               /\ reqs[k] # None /\ pr[k] # None
               /\ reqs[k][1] = PhaseRequestsOf(records, k, fetched)
               /\ pr[k][1] \in PossibleResults(reqs[k][1])
        /\ res = CombineResultsOf(records, fetched)

\* Every job in `js` runs the request list its call built for the job's phase
SubmittedAsBuilt(js, ups, reqs) ==
    \A n \in 1..Len(js) :
        reqs[js[n].phase] # None => ups[js[n].input_file_id] = reqs[js[n].phase][1]

\* What the first call holds and what it leaves behind
FirstCallState == <<pc, batchVars, results, raised>>

\* C18: when the second call has a directory of its own, however the two
\* calls are interleaved, every job of either call runs exactly the requests
\* that call built for the phase, a call that returns returns results it
\* could have returned running alone, and no step of one call changes
\* anything the other holds or has written.
C18_DistinctDirsIsolated ==
    /\ [](other.output_dir = "own" =>
            /\ SubmittedAsBuilt(jobs, uploads, requests)
            /\ SubmittedAsBuilt(other.jobs, other.uploads, other.requests)
            /\ pc = "done" => AsWhenAlone(articles, requests, phase_results, results)
            /\ other.pc = "done" =>
                   AsWhenAlone(other.articles, other.requests, other.phase_results,
                               other.results))
    /\ [][other.output_dir = "own" =>
              \/ other' = other
              \/ FirstCallState' = FirstCallState]_vars

\* Both calls, each in its own directory, returned arguments after their
\* four jobs had completed.
C18_Witness ==
    /\ other.output_dir = "own"
    /\ pc = "done" /\ other.pc = "done"
    /\ Len(jobs) = 2 /\ Len(other.jobs) = 2
    /\ \A n \in 1..2 : jobs[n].status = "completed" /\ other.jobs[n].status = "completed"
    /\ results[1].success /\ other.results[1].success
    /\ results # other.results

\* C21: constructing the extractor's client with no key in the argument and
\* none in OPENAI_API_KEY when it is read (the .env file loaded) raises
\* ValueError and makes no client; the failed construction is followed by no
\* other step, and no upload, job or call was ever made.
C21_NoKeyFailsConstruction ==
    /\ [][/\ (pc = "init" /\ api_key \in {None, Some("")}
                             /\ environ' \in {None, Some("")}) =>
                 /\ pc' = "raised"
                 /\ raised' = Some("ValueError")
                 /\ client' = None
           /\ raised # Some("ValueError")]_vars
    /\ [](raised = Some("ValueError") =>
            /\ pc = "raised" /\ client = None
            /\ uploads = <<>> /\ jobs = <<>> /\ calls = <<>> /\ results = <<>>)

\* The construction failed with an empty key as its argument and an empty
\* OPENAI_API_KEY in the environment, which kept the .env file's key out.
C21_Witness ==
    /\ raised = Some("ValueError")
    /\ api_key = Some("") /\ environ = Some("") /\ dotenv = Some(TheKey)

\* process_batch is inside _wait_for_batch
Waiting == mode = "batch" /\ pc \in {"check", "sleep", "get_results"}

\* The jobs whose results process_batch holds
FetchedJobs == {n \in 1..Len(jobs) : phase_results[jobs[n].phase] # None}

\* C22: in a batch call, _wait_for_batch reaches get_batch_results only from
\* a status query that found the awaited job in a terminal status; a query
\* that found it in another status is followed by the sleep and the sleep by
\* a query of the same job; the fetch is made once (it stores results the
\* phase did not have yet and leaves the wait), and the wait is left in no
\* other way unless a call raises.  So each job left behind was fetched
\* exactly once and the awaited one not yet.
C22_FetchOnceAfterTerminal ==
    /\ [][(mode = "batch" /\ raised' = None /\ pc' # pc) =>
              /\ pc' = "get_results" =>
                     /\ pc = "check"
                     /\ jobs[job_id].status \in TerminalStatuses
                     /\ job_id' = job_id
              /\ (pc = "check" /\ jobs[job_id].status \notin TerminalStatuses) =>
                     pc' = "sleep" /\ job_id' = job_id
              /\ pc = "sleep" => pc' = "check" /\ job_id' = job_id
              /\ pc = "get_results" =>
                     /\ phase_results[phase] = None
                     /\ phase_results'[phase] # None
                     /\ ~Waiting'
              /\ (Waiting /\ ~Waiting') => pc = "get_results"]_vars
    /\ []((mode = "batch" /\ raised = None) =>
            /\ \A m, n \in 1..Len(jobs) : jobs[m].phase = jobs[n].phase => m = n
            /\ FetchedJobs = IF Waiting THEN 1..(Len(jobs) - 1) ELSE 1..Len(jobs)
            /\ Waiting => job_id = Len(jobs))

\* The first job was cancelled and then fetched; the second is being polled
\* and is still in progress.
C22_Witness ==
    /\ mode = "batch" /\ variant = "qa" /\ pc = "sleep"
    /\ Len(jobs) = 2
    /\ jobs[1].status = "cancelled" /\ phase_results[1] # None
    /\ jobs[2].status = "in_progress" /\ phase_results[2] = None

\* The requests of a list submitted under a key
RequestsUnder(reqs, custom_id) == SelectSeq(reqs, LAMBDA r : r.custom_id = custom_id)

\* The request of phase k keyed for item jj (1-based) of the article at
\* position n is there, once, and embeds that item of the returned result.
EmbedsItem(k, n, jj) ==
    LET under == RequestsUnder(requests[k][1], Key2(PhaseTag(k), n - 1, jj - 1))
    IN  /\ Len(under) = 1
        /\ under[1].prompt.item = ItemsOf(results[n])[jj]

\* C23: when a batch call has returned, every request it submitted in a
\* later phase under a key of article i and item j embeds the text of the
\* item the returned result of article i holds at position j; and every
\* argument of article i is made of the item at some position j and of the
\* data found under that same j (p_i_j, or qa_i_j and arg_i_j), whose
\* requests embedded that item.
C23_ItemIndexStable ==
    (mode = "batch" /\ Returned) =>
        /\ \A k \in 2..LastPhase : \A x \in 1..Len(requests[k][1]) :
               LET r == requests[k][1][x]
                   segments == KeySegments(r.custom_id, <<>>)
                   n == IndexOfSegment(segments[2]) + 1
                   jj == IndexOfSegment(segments[3]) + 1
               IN  /\ segments[1] = PhaseTag(k)
                   /\ n <= Len(results)
                   /\ jj <= Len(ItemsOf(results[n]))
                   /\ r.prompt.item = ItemsOf(results[n])[jj]
        /\ \A n \in 1..Len(results) :
               LET items == ItemsOf(results[n])
                   args == results[n].arguments[1]
               IN  IF variant = "direct"
                   THEN /\ Len(args) = Len(items)
                        /\ \A jj \in 1..Len(args) :
                               /\ args[jj].conclusion = items[jj]
                               /\ args[jj].premises =
                                      MapGet(BuildPremisesMap(Fetched[2]),
                                             Key2(<<"p">>, n - 1, jj - 1), <<>>)
                               /\ EmbedsItem(2, n, jj)
                   ELSE \A a \in 1..Len(args) :
                            \E jj \in 1..Len(items) :
                               LET qa == Key2(<<"q", "a">>, n - 1, jj - 1)
                                   arg == Key2(<<"a", "r", "g">>, n - 1, jj - 1)
                               IN  /\ args[a].question = items[jj]
                                   /\ args[a].answer = BuildAnswersMap(Fetched[2])[qa]
                                   /\ args[a].claim = BuildArgumentsMap(Fetched[3])[arg].claim
                                   /\ args[a].premises =
                                          BuildArgumentsMap(Fetched[3])[arg].premises
                                   /\ EmbedsItem(2, n, jj)
                                   /\ EmbedsItem(3, n, jj)
                                   /\ RequestsUnder(requests[3][1], arg)[1].prompt.answer
                                          = args[a].answer

\* A direct batch call on two articles returned; the second article has two
\* conclusions and the premises found under p_1_1 sit with its second one.
C23_Witness ==
    /\ mode = "batch" /\ variant = "direct" /\ Returned
    /\ Len(results) = 2
    /\ Len(results[2].arguments[1]) = 2
    /\ results[2].arguments[1][2].premises # <<>>
    /\ Key2(<<"p">>, 1, 1) \in DOMAIN BuildPremisesMap(Fetched[2])

\* The phase-2 results hold premises content under p_<n-1>_<jj>.
PremisesPresent(n, jj) ==
    \E x \in 1..Len(Fetched[2]) :
        /\ Fetched[2][x].custom_id = Key2(<<"p">>, n - 1, jj)
        /\ ExtractBatchResult(Fetched[2][x]) # <<>>

\* C24: when a direct-extraction batch call has returned, every article has
\* as many arguments as its phase-1 record yields conclusions, the j-th
\* holding the j-th conclusion, with premises = [] when the phase-2 results
\* hold no content under p_i_j; and an article with at least one conclusion
\* has success = true and no error message, whatever phase 2 brought back.
C24_EveryConclusionAnArgument ==
    (mode = "batch" /\ variant = "direct" /\ Returned) =>
        \A n \in 1..Len(articles) :
            LET conclusions == Phase1ConclusionsOf(n)
                args == results[n].arguments[1]
            IN  /\ Len(args) = Len(conclusions)
                /\ \A jj \in 1..Len(conclusions) :
                       /\ args[jj].conclusion = conclusions[jj]
                       /\ ~PremisesPresent(n, jj - 1) => args[jj].premises = <<>>
                /\ Len(conclusions) >= 1 =>
                       results[n].success /\ results[n].error_message = None

\* The phase-2 job failed and brought nothing back; the article has two
\* conclusions, two arguments without premises, and success = true.
C24_Witness ==
    /\ mode = "batch" /\ variant = "direct" /\ Returned
    /\ Len(jobs) = 2 /\ jobs[2].status = "failed" /\ Fetched[2] = <<>>
    /\ Len(results) >= 1
    /\ Len(results[1].conclusions[1]) = 2
    /\ Len(results[1].arguments[1]) = 2
    /\ \A jj \in 1..2 : results[1].arguments[1][jj].premises = <<>>
    /\ results[1].success

\* The content of the last record of a phase's results that has content
\* under a key ("" when there is none)
ContentUnder(phase_results_k, custom_id) ==
    LET records == SelectSeq(RecordsUnder(phase_results_k, custom_id),
                             LAMBDA r : ExtractBatchResult(r) # <<>>)
    IN  IF records = <<>> THEN <<>> ELSE ExtractBatchResult(records[Len(records)])

\* C25: when a question-answer batch call has returned, the arguments of an
\* article hold a record for its question j exactly when the phase-2 results
\* hold content under qa_i_j and the phase-3 results hold content under
\* arg_i_j; the record holds what the parser finds in that phase-3 content,
\* be it no claim ("") and no premises ([]), and any record makes the
\* article a success.
C25_RecordIffAnswerAndArgument ==
    (mode = "batch" /\ variant = "qa" /\ Returned) =>
        \A n \in 1..Len(articles) :
            LET questions == results[n].questions[1]
                args == results[n].arguments[1]
            IN  /\ \A jj \in 1..Len(questions) :
                       LET made == {a \in 1..Len(args) : args[a].question = questions[jj]}
                           parsed == ParseArgument(
                                         ContentUnder(Fetched[3],
                                             Key2(<<"a", "r", "g">>, n - 1, jj - 1)))
                       IN  /\ made # {} <=>
                                  (AnswerPresent(n, jj - 1) /\ ArgumentPresent(n, jj - 1))
                           /\ \A a \in made :
                                  /\ args[a].claim = parsed.claim
                                  /\ args[a].premises = parsed.premises
                                  /\ args[a].answer =
                                         ContentUnder(Fetched[2],
                                             Key2(<<"q", "a">>, n - 1, jj - 1))
                /\ \A a \in 1..Len(args) :
                       \E jj \in 1..Len(questions) : args[a].question = questions[jj]
                /\ results[n].success <=> Len(args) > 0

\* The only argument of a returned article has no claim and no premises,
\* and the article is a success.
C25_Witness ==
    /\ mode = "batch" /\ variant = "qa" /\ Returned
    /\ Len(results) >= 1
    /\ Len(results[1].arguments[1]) = 1
    /\ results[1].arguments[1][1].claim = <<>>
    /\ results[1].arguments[1][1].premises = <<>>
    /\ results[1].success

\* C26: when the second call shares the first call's output directory, its
\* write of a phase file replaces what is at the first call's path for that
\* phase, the first call's upload sends whatever that path holds when it
\* reopens it, and its job is created on that upload: a write of the second
\* call that falls between the first call's write and upload makes the
\* first call's job run the second call's requests.
C26_SharedDirWriteUploadRace ==
    [][other.output_dir = "shared" =>
          /\ (other.pc = "send_write" /\ other' # other) =>
                 files'[other.phase] = Some(other.requests[other.phase][1])
          /\ (pc = "send_upload" /\ pc' = "send_create") =>
                 uploads' = Append(uploads, files[phase][1])
          /\ (pc = "send_create" /\ pc' = "check") =>
                 /\ Len(jobs') = Len(jobs) + 1
                 /\ uploads[jobs'[job_id'].input_file_id] = uploads[Len(uploads)]]_vars

\* In a shared directory the first call returned a result for its own
\* article made from the other call's: its phase-1 job ran the request the
\* second call had built, under the key c_0 that both calls use.
C26_Witness ==
    /\ other.output_dir = "shared"
    /\ pc = "done"
    /\ other.requests[1] # None
    /\ requests[1][1] # other.requests[1][1]
    /\ requests[1][1][1].custom_id = other.requests[1][1][1].custom_id
    /\ uploads[jobs[1].input_file_id] = other.requests[1][1]
    /\ results[1].text = articles[1].text
    /\ results[1].success
    /\ \A x \in 1..Len(results[1].conclusions[1]) :
           \A y \in 1..Len(results[1].conclusions[1][x]) :
               results[1].conclusions[1][x][y].a = 2

\* C27: in a batch call the phase never goes back while the call runs, a
\* job is created only for the current phase and only when every earlier
\* job belongs to an earlier phase and has ended, whatever its outcome; so
\* the jobs of a call belong to distinct, increasing phases and are at most
\* two (direct) or three (question-answer).
C27_PhasesOnlyAdvance ==
    /\ [][(mode = "batch" /\ raised' = None) =>
              /\ phase' >= phase
              /\ Len(jobs') >= Len(jobs)
              /\ Len(jobs') > Len(jobs) =>
                     /\ Len(jobs') = Len(jobs) + 1
                     /\ jobs'[Len(jobs')].phase = phase
                     /\ \A n \in 1..Len(jobs) :
                            /\ jobs[n].phase < phase
                            /\ jobs[n].status \in TerminalStatuses]_vars
    /\ [](mode = "batch" =>
            /\ Len(jobs) <= (IF variant = "direct" THEN 2 ELSE 3)
            /\ \A m, n \in 1..Len(jobs) : m < n => jobs[m].phase < jobs[n].phase)

\* A question-answer call returned after three jobs, the second of which
\* expired and the third of which failed: neither was submitted again.
C27_Witness ==
    /\ mode = "batch" /\ variant = "qa" /\ pc = "done"
    /\ Len(jobs) = 3
    /\ jobs[2].status = "expired"
    /\ jobs[3].status = "failed"

\* process_batch waits for a job that is in no terminal status
AwaitedJobStuck ==
    /\ mode = "batch"
    /\ job_id >= 1
    /\ jobs[job_id].status \notin TerminalStatuses

\* C28: in a batch call, if from some point on the job waited for is never
\* in a terminal status, then _wait_for_batch queries it again and again
\* without end, sleeping in between, and process_batch stays in that wait
\* for ever: no later phase, no combination, no return.
C28_PollsForever ==
    <>[]AwaitedJobStuck =>
        /\ []<>(pc = "check")
        /\ []<>(pc = "sleep")
        /\ <>[]Polling
        /\ [](pc # "done")

\* The second job of a call is being polled while still in progress.
C28_Witness ==
    /\ AwaitedJobStuck
    /\ pc = "sleep"
    /\ job_id = 2 /\ jobs[2].status = "in_progress"
    /\ phase_results[2] = None

\* The jobs of phase k that the call has created
JobsOfPhase(k) == {n \in 1..Len(jobs) : jobs[n].phase = k}

\* C29: for every submitted phase send_batch first writes the phase's whole
\* request list to the phase's own file, then uploads that file, then creates
\* the job on that upload; once process_batch has returned, a phase file
\* exists exactly for the phases that were submitted and holds exactly the
\* requests submitted for its phase, and a skipped phase has written no file.
C29_WriteUploadCreate ==
    /\ [](\A n \in 1..Len(jobs) :
            /\ jobs[n].input_file_id \in 1..Len(uploads)
            /\ files[jobs[n].phase] = Some(uploads[jobs[n].input_file_id]))
    /\ []((mode = "batch" /\ Returned) =>
            \A k \in Phases :
                /\ files[k] # None <=> JobsOfPhase(k) # {}
                /\ files[k] # None => files[k] = requests[k]
                /\ (k >= 2 /\ requests[k] = Some(<<>>)) => files[k] = None)
    /\ [][/\ files' # files =>
                /\ pc = "send_write" /\ pc' = "send_upload"
                /\ JobsOfPhase(phase) = {}
                /\ files[phase] = None
                /\ files' = [files EXCEPT ![phase] = requests[phase]]
          /\ uploads' # uploads =>
                /\ pc = "send_upload" /\ pc' = "send_create"
                /\ files[phase] = requests[phase]
                /\ uploads' = Append(uploads, requests[phase][1])
          /\ Len(jobs') # Len(jobs) =>
                /\ pc = "send_create"
                /\ Len(uploads) >= 1
                /\ Some(uploads[Len(uploads)]) = files[phase]
                /\ Len(jobs') = Len(jobs) + 1
                /\ jobs'[Len(jobs')].input_file_id = Len(uploads)
                /\ jobs'[Len(jobs')].phase = phase]_vars

C29_Witness ==
    /\ mode = "batch" /\ variant = "qa" /\ Returned
    /\ files[1] # None /\ files[2] # None
    /\ Len(files[2][1]) >= 2
    /\ requests[3] = Some(<<>>)
    /\ files[3] = None
    /\ Len(jobs) = 2

\* The calls process_single makes for an article with k items when none of
\* them fails: the phase-1 call, then item by item the phase-2 call and, in
\* the question-answer variant, the phase-3 call right after it
CallsFor(k) ==
    IF variant = "direct"
    THEN <<[tpl |-> "conclusion_extraction", item |-> 0]>>
         \o [x \in 1..k |-> [tpl |-> "premise_extraction", item |-> x]]
    ELSE <<[tpl |-> "question_extraction", item |-> 0]>>
         \o [x \in 1..(2 * k) |->
                IF x % 2 = 1
                THEN [tpl |-> "question_answering", item |-> (x + 1) \div 2]
                ELSE [tpl |-> "argument_construction", item |-> x \div 2]]

\* process_single has the phase-1 items of its article
ItemsKnown ==
    /\ result # None
    /\ IF variant = "direct" THEN result[1].conclusions # None
       ELSE result[1].questions # None

\* C30: in the single-article path the phase-1 call comes first and once;
\* then, in item order, every item gets one phase-2 call and, in the
\* question-answer variant, its phase-3 call right after its own phase-2 call
\* and before the next item's; an article with k items makes 1 + k calls
\* (direct) or 1 + 2k calls (question-answer) when nothing fails.
C30_SingleCallOrder ==
    mode = "single" =>
        /\ calls # <<>> =>
              /\ calls[1] = CallsFor(0)[1]
              /\ \A i \in 2..Len(calls) : calls[i].item >= 1
        /\ Len(calls) >= 2 => ItemsKnown
        /\ ItemsKnown =>
              LET k == Len(ItemsOf(result[1]))
              IN  /\ Len(calls) <= Len(CallsFor(k))
                  /\ calls = SubSeq(CallsFor(k), 1, Len(calls))
                  /\ (pc = "return" /\ result[1].success) =>
                        /\ calls = CallsFor(k)
                        /\ Len(calls) = IF variant = "direct" THEN 1 + k ELSE 1 + 2 * k

C30_Witness ==
    /\ mode = "single" /\ variant = "qa"
    /\ pc = "return" /\ result # None /\ result[1].success
    /\ Len(ItemsOf(result[1])) = 2
    /\ Len(calls) = 5
    /\ calls[4].tpl = "question_answering" /\ calls[4].item = 2
    /\ \E i \in 1..Len(arguments_list) : arguments_list[i].answer = <<>>

\* ------------------------------------------------------------------ the functions called on their own

\* is_complete, the request builders, the map builders and the combination
\* step are functions of their arguments.  Here each is called once on
\* arguments that no run above gets to: a status the service does not name,
\* article and item indices of two digits, more than ten questions, several
\* records under one key.

\* The decimal digits of n as characters of a text
Digits(n) == [x \in 1..Len(Str(n)) |-> Tok(Str(n)[x])]

\* A response listing m numbered items about text t
RECURSIVE NumberedList(_, _)
NumberedList(t, m) ==
    IF m = 0 THEN <<>>
    ELSE NumberedList(t, m - 1) \o Digits(m) \o <<Dot, Sp, Word("item", t, m), NL>>

\* The statuses given to is_complete: the eight of the service, and strings
\* that are none of them
StatusValues ==
    {"validating", "in_progress", "finalizing", "cancelling",
     "completed", "failed", "expired", "cancelled",
     "unknown", "", "Completed", "complete", "canceled"}

ItemCounts == {0, 1, 2, MaxItems - 1, MaxItems}

\* How many items the phase-1 response of each record lists: the second
\* record anything, the last one up to two, the first one none or one, the
\* others none.
CountsGiven ==
    {[t \in 1..MaxRecords |->
         IF t = 2 THEN a ELSE IF t = MaxRecords THEN b ELSE IF t = 1 THEN r ELSE 0] :
        a \in ItemCounts, b \in {0, 1, 2}, r \in {0, 1}}

\* The phase-1 results for these counts, from record t on: a record with no
\* item has no line in them.
RECURSIVE ResponsesFrom(_, _)
ResponsesFrom(c, t) ==
    IF t > MaxRecords THEN <<>>
    ELSE (IF c[t] = 0 THEN <<>>
          ELSE <<[custom_id |-> Key1(PhaseTag(1), t - 1), shape |-> "ok",
                  content |-> NumberedList(t, c[t])]>>)
         \o ResponsesFrom(c, t + 1)

\* Two more lines under the key of the second record: one item, then blank
Repeated ==
    <<[custom_id |-> Key1(PhaseTag(1), 1), shape |-> "ok", content |-> NumberedList(2, 1)],
      [custom_id |-> Key1(PhaseTag(1), 1), shape |-> "ok", content |-> <<Sp, NL>>]>>

\* Every request of the list answered as its prompt asks
AllServed(input) ==
    OutputLines(input, [n \in 1..Len(input) |-> ServedKind(input[n].prompt.tpl)])

\* The phase-1 results in which the responses list c items, with the
\* repeated lines or without
Phase1Given(c, dup) == ResponsesFrom(c, 1) \o (IF dup THEN Repeated ELSE <<>>)

\* The contents a record given to a map builder may hold
ContentsGiven ==
    {<<>>, <<Sp, NL>>, Prose, NumberedList(1, 1), NumberedList(1, 2),
     <<Sp, Word("answer", 1, 1), NL>>}

\* Up to three records under one key of phase k, the last one maybe without
\* choices
SameKeyRecords(k) ==
    LET key == IF k = 1 THEN Key1(PhaseTag(1), 0) ELSE Key2(PhaseTag(k), 0, 0)
        Rec(content) == [custom_id |-> key, shape |-> "ok", content |-> content]
        NoChoices == [custom_id |-> key, shape |-> "no_choices", content |-> <<>>]
    IN  UNION {{[x \in 1..n |-> Rec(cs[x])] : cs \in [1..n -> ContentsGiven]} :
               n \in 1..2}
        \cup {<<Rec(a), Rec(b), last>> :
                 a \in ContentsGiven, b \in ContentsGiven,
                 last \in {Rec(<<>>), Rec(NumberedList(1, 1)), NoChoices}}

NoResults == <<<<>>, <<>>, <<>>>>

\* One call: the function, and its arguments among status, k and pr
Call(fn, status, k, pr) == [fn |-> fn, status |-> status, k |-> k, pr |-> pr]

\* The calls made first: is_complete on a status, a map builder on records
\* under one key, _batch_phase1 on the records, _batch_phase2 on them and
\* on phase-1 results.
CallsGiven ==
    {Call("is_complete", status, 0, NoResults) : status \in StatusValues}
    \cup UNION {{Call("build_map", "", k, <<records_k, <<>>, <<>>>>) :
                    records_k \in SameKeyRecords(k)} : k \in 1..LastPhase}
    \cup {Call("phase_requests", "", 1, NoResults)}
    \cup {Call("phase_requests", "", 2, <<Phase1Given(c, dup), <<>>, <<>>>>) :
             c \in CountsGiven, dup \in BOOLEAN}

InitFn ==
    /\ mode = "batch"
    /\ variant \in {"direct", "qa"}
    /\ articles = [t \in 1..MaxRecords |-> Article(t, TRUE)]
    /\ id_column = Some("article_id")
    /\ ClientMade
    /\ pc = "call"
    /\ InitLocals
    /\ other = NoCall
    /\ given \in {Some(call) : call \in CallsGiven}
    /\ value = None

\* The function `fn` is about to be called
Calling(fn) ==
    /\ pc = "call"
    /\ given[1].fn = fn
    /\ pc' = "called"
    /\ UNCHANGED <<inputVars, setupVars, given, batchVars, singleVars, results, raised,
                   other>>

\* BatchJobStatus(status=...).is_complete
CallIsComplete ==
    /\ Calling("is_complete")
    /\ value' = Some(IsComplete(given[1].status))

\* The map builder of phase k's results
CallBuildMap ==
    /\ Calling("build_map")
    /\ value' = Some(PhaseMap(given[1].k, given[1].pr[1]))

\* The request list _batch_phase<k> builds
CallPhaseRequests ==
    /\ Calling("phase_requests")
    /\ value' = Some(PhaseRequestsOf(articles, given[1].k, given[1].pr))

\* The requests just built are all answered, and the next phase's builder,
\* or after the last phase the combination step, is called on the results.
Served ==
    /\ pc = "called"
    /\ given[1].fn = "phase_requests"
    /\ LET k == given[1].k
           pr == [given[1].pr EXCEPT ![k] = AllServed(value[1])]
       IN  given' = IF k < LastPhase
                    THEN Some(Call("phase_requests", "", k + 1, pr))
                    ELSE Some(Call("combine_results", "", 0, pr))
    /\ value' = None
    /\ pc' = "call"
    /\ UNCHANGED <<inputVars, setupVars, batchVars, singleVars, results, raised, other>>

\* _combine_results
CallCombineResults ==
    /\ Calling("combine_results")
    /\ value' = Some(CombineResultsOf(articles, given[1].pr))

FnNext ==
    \/ CallIsComplete \/ CallBuildMap
    \/ CallPhaseRequests \/ Served \/ CallCombineResults

SpecFn == InitFn /\ [][FnNext]_vars

\* The function `fn` has returned
Called(fn) == pc = "called" /\ given[1].fn = fn

\* C31: within every request list built for a phase the correlation keys
\* are pairwise distinct, whatever the number of articles and of items per
\* article: the keys of article 1 item 11 and of article 11 item 1 differ.
C31_KeysDistinct ==
    Called("phase_requests") =>
        \A x \in 1..Len(value[1]) : \A y \in 1..Len(value[1]) :
            x # y => value[1][x].custom_id # value[1][y].custom_id

C31_Witness ==
    /\ Called("phase_requests")
    /\ given[1].k = 2 /\ variant = "direct"
    /\ \E x \in 1..Len(value[1]) : \E y \in 1..Len(value[1]) :
           /\ value[1][x].custom_id = <<"p", "_", "1", "_", "1", "1">>
           /\ value[1][y].custom_id = <<"p", "_", "1", "1", "_", "1">>

\* C32: is_complete is true exactly for the statuses completed, failed,
\* expired and cancelled; validating, in_progress, finalizing, cancelling and
\* every string the service does not name are not terminal.
C32_CompleteIffTerminal ==
    Called("is_complete") =>
        /\ value \in {Some(TRUE), Some(FALSE)}
        /\ value = Some(TRUE) <=>
               given[1].status \in {"completed", "failed", "expired", "cancelled"}

C32_Witness ==
    /\ Called("is_complete")
    /\ given[1].status = "unknown"
    /\ value = Some(FALSE)

\* Phase 1 brought questions and phase 2 is over without one answer that is
\* not empty
QuestionsButNoAnswer ==
    /\ mode = "batch" /\ variant = "qa"
    /\ phase_results[1] # None /\ phase_results[2] # None
    /\ \E r \in 1..Len(Fetched[1]) :
           /\ ExtractBatchResult(Fetched[1][r]) # <<>>
           /\ ParseQuestions(ExtractBatchResult(Fetched[1][r])) # <<>>
    /\ \A r \in 1..Len(Fetched[2]) : ExtractBatchResult(Fetched[2][r]) = <<>>

\* C33: in the question-answer variant, when phase 1 produced questions but
\* no (article, question) pair has a non-empty phase-2 answer, no phase-3
\* job is submitted, process_batch goes on to its return without a point
\* where it could raise, every article's result has success = false and the
\* message "No arguments extracted", and keeps the article's questions.
C33_NoAnswerNoPhase3 ==
    QuestionsButNoAnswer =>
        /\ JobsOfPhase(3) = {}
        /\ files[3] = None
        /\ pc \in {"phase3", "combine", "done"}
        /\ raised = None
        /\ requests[3] \in {None, Some(<<>>)}
        /\ pc = "done" =>
              /\ Len(results) = Len(articles)
              /\ \A n \in 1..Len(results) :
                    /\ ~results[n].success
                    /\ results[n].error_message = Some("No arguments extracted")
                    /\ results[n].arguments = Some(<<>>)
                    /\ \A r \in 1..Len(Fetched[1]) :
                          (/\ Fetched[1][r].custom_id = Key1(<<"q">>, n - 1)
                           /\ ExtractBatchResult(Fetched[1][r]) # <<>>
                           /\ Len(RecordsUnder(Fetched[1], Fetched[1][r].custom_id)) = 1)
                          => results[n].questions =
                                 Some(ParseQuestions(ExtractBatchResult(Fetched[1][r])))

C33_Witness ==
    /\ QuestionsButNoAnswer
    /\ pc = "done"
    /\ Len(articles) = 2
    /\ Len(jobs) = 2 /\ jobs[2].status = "failed"
    /\ \A n \in 1..Len(results) :
          /\ results[n].questions # None
          /\ Len(results[n].questions[1]) = 2
          /\ ~results[n].success

\* The article index (0-based) a correlation key carries
ArticleIndexOf(custom_id) == IndexOfSegment(KeySegments(custom_id, <<>>)[2])

\* C34: an input article that lacks the text column gets no request in any
\* phase (and so no record in any phase's results), yet gets a result at
\* its own position with text "", no arguments and success = false; the
\* keys and results of the articles after it are not renumbered.
C34_NoTextArticle ==
    mode = "batch" =>
        \A n \in 1..Len(articles) : ~articles[n].hasText =>
            /\ \A k \in Phases :
                  /\ requests[k] # None =>
                        \A x \in 1..Len(requests[k][1]) :
                            ArticleIndexOf(requests[k][1][x].custom_id) # n - 1
                  /\ \A x \in 1..Len(Fetched[k]) :
                        ArticleIndexOf(Fetched[k][x].custom_id) # n - 1
            /\ Returned =>
                  /\ Len(results) = Len(articles)
                  /\ results[n].text = <<>>
                  /\ results[n].arguments = Some(<<>>)
                  /\ ~results[n].success
                  /\ results[n].error_message = Some("No arguments extracted")
                  /\ \A m \in (n + 1)..Len(articles) : articles[m].hasText =>
                        /\ results[m].text = articles[m].text
                        /\ \A text \in TextsOfResult(results[m]) :
                              \A x \in 1..Len(text) : text[x].a = m
                        /\ LET first == RequestsUnder(requests[1][1],
                                                      Key1(PhaseTag(1), m - 1))
                           IN  /\ Len(first) = 1
                               /\ first[1].prompt.text = articles[m].text

C34_Witness ==
    /\ mode = "batch" /\ Returned
    /\ Len(articles) = 2
    /\ ~articles[1].hasText /\ articles[2].hasText
    /\ Len(results) = 2
    /\ ~results[1].success /\ results[1].text = <<>>
    /\ results[2].success
    /\ Len(requests[1][1]) = 1

\* C35: in process_single, when a call for item k of phase 2 (or phase 3)
\* raises an error that process_single catches, no further call is made for
\* the article, the result keeps the whole phase-1 item list, and its
\* arguments stay null: the records built for the items before k are not
\* returned.
C35_CaughtErrorDropsArguments ==
    /\ []((mode = "single" /\ pc = "return" /\ ~result[1].success) =>
            /\ result[1].arguments = None
            /\ result[1].error_message # None)
    /\ [][/\ (AtSingleCall /\ pc \in {"items", "construct"}
              /\ pc' = "return" /\ raised' = None) =>
                /\ result' # None
                /\ result'[1].arguments = None
                /\ ~result'[1].success
                /\ result'[1].error_message # None
                /\ IF variant = "direct"
                   THEN result'[1].conclusions = result[1].conclusions
                   ELSE result'[1].questions = result[1].questions
                /\ Len(calls') = Len(calls) + 1
          /\ (mode = "single" /\ pc = "return") =>
                /\ pc' = "loop"
                /\ calls' = <<>>
                /\ results' = Append(results, result[1])]_vars

C35_Witness ==
    /\ mode = "single" /\ pc = "return"
    /\ ~result[1].success
    /\ ItemsKnown
    /\ Len(ItemsOf(result[1])) = 2
    /\ Len(arguments_list) = 1
    /\ result[1].arguments = None
    /\ calls[Len(calls)].item = 2

\* C36: no phase result is changed after the job returned it: what
\* _wait_for_batch hands over is what the job's output file holds, and from
\* then on every step of the call (building the next phase's requests and
\* the combination step among them) leaves the result list of every
\* earlier phase as it is, for as long as the call lasts.
C36_PhaseResultsFrozen ==
    [][/\ \A k \in Phases :
             (phase_results[k] # None /\ pc' # "raised") =>
                 phase_results'[k] = phase_results[k]
       /\ (pc \in {"phase2", "phase3", "combine"} /\ pc' # "raised") =>
             \A k \in Phases : k < (IF pc = "phase2" THEN 2 ELSE IF pc = "phase3" THEN 3 ELSE 4)
                 => phase_results'[k] = phase_results[k]
       /\ (pc = "get_results" /\ pc' # "raised") =>
             phase_results'[phase] \in
                 {Some(BatchResultsOf(output_file)) :
                      output_file \in OutputFiles(jobs[job_id])}]_vars

C36_Witness ==
    /\ mode = "batch" /\ variant = "qa" /\ Returned
    /\ \A k \in Phases : phase_results[k] # None /\ phase_results[k][1] # <<>>
    /\ Len(phase_results[2][1]) >= 2
    /\ \E n \in 1..Len(results) : results[n].success

\* What the map of phase k holds for a content that is not empty
ParsedAs(k, content) ==
    IF variant = "direct" THEN ParseListItems(content)
    ELSE IF k = 1 THEN ParseQuestions(content)
    ELSE IF k = 2 THEN content
    ELSE ParseArgument(content)

\* C37: when a phase's results hold several records with the same
\* custom_id, the map built from them keeps the content of the last record
\* whose content is not empty; a later record with empty content does not
\* erase an earlier one, and a key all of whose records are empty is absent.
C37_LastContentWins ==
    Called("build_map") =>
        LET records == given[1].pr[1]
            key == records[1].custom_id
            withContent == {x \in 1..Len(records) :
                               /\ records[x].shape = "ok"
                               /\ Strip(records[x].content) # <<>>}
        IN  IF withContent = {} THEN DOMAIN value[1] = {}
            ELSE LET last == CHOOSE x \in withContent : \A y \in withContent : y <= x
                 IN  /\ DOMAIN value[1] = {key}
                     /\ value[1][key] = ParsedAs(given[1].k, Strip(records[last].content))

C37_Witness ==
    /\ Called("build_map")
    /\ variant = "direct" /\ given[1].k = 1
    /\ Len(given[1].pr[1]) = 3
    /\ given[1].pr[1][1].content = NumberedList(1, 2)
    /\ given[1].pr[1][2].content = NumberedList(1, 1)
    /\ given[1].pr[1][3].content = <<>>
    /\ value[1][<<"c", "_", "0">>] = <<<<Word("item", 1, 1)>>>>

\* The requests of the list that carry article index i
RequestsOfArticle(reqs, i) ==
    SelectSeq(reqs, LAMBDA r : ArticleIndexOf(r.custom_id) = i)

\* C38: in the question-answer variant every article has at most 10
\* questions: the item index of every qa_i_j and arg_i_j key is in 0..9, an
\* article has at most 10 requests in phase 2 and in phase 3, and its
\* questions and its arguments list have at most 10 entries.
C38_AtMostTenQuestions ==
    variant = "qa" =>
        /\ (Called("phase_requests") /\ given[1].k >= 2) =>
              /\ \A x \in 1..Len(value[1]) :
                    IndexOfSegment(KeySegments(value[1][x].custom_id, <<>>)[3]) \in 0..9
              /\ \A i \in 0..(Len(articles) - 1) :
                    Len(RequestsOfArticle(value[1], i)) <= 10
        /\ Called("combine_results") =>
              \A n \in 1..Len(value[1]) :
                  /\ Len(value[1][n].questions[1]) <= 10
                  /\ Len(value[1][n].arguments[1]) <= 10

C38_Witness ==
    /\ variant = "qa"
    /\ Called("combine_results")
    /\ \E x \in 1..Len(given[1].pr[1]) :
          /\ given[1].pr[1][x].custom_id = <<"q", "_", "1">>
          /\ given[1].pr[1][x].content = NumberedList(2, MaxItems)
    /\ Len(RecordsUnder(given[1].pr[1], <<"q", "_", "1">>)) = 1
    /\ Len(value[1][2].questions[1]) = 10
    /\ Len(value[1][2].arguments[1]) = 10
    /\ Len(RequestsOfArticle(
               PhaseRequestsOf(articles, 3, given[1].pr), 1)) = 10

====
